---- MODULE Spec2Model ----
(***************************************************************************)
(* PackedArray: an array of count unsigned integers of bitsPerItem bits    *)
(* each, tightly packed into a buffer of uint32_t words.                   *)
(*                                                                         *)
(* A uint32_t is modelled exactly as the set of its set bit positions, a   *)
(* subset of 0..31 (a uint64_t as a subset of 0..63): the C operators      *)
(* & | ^ ~ << >> become set operations and no value ever exceeds the       *)
(* integers of the checker.  Bit counts, offsets and indices are plain     *)
(* integers.                                                               *)
(***************************************************************************)
EXTENDS Integers, Sequences, FiniteSets, TLC

\* ------------------------------------------------------------------ uint32_t

\* bit positions of a uint32_t
Bit == 0 .. 31

\* bit positions of a uint64_t
Bit64 == 0 .. 63

\* x & y
And(x, y) == x \cap y

\* x | y
Or(x, y) == x \cup y

\* x ^ y
Xor(x, y) == (x \ y) \cup (y \ x)

\* ~x on a uint32_t
Not(x) == Bit \ x

\* x << k on a uint32_t: bits shifted past bit 31 are lost
Shl(x, k) == { b + k : b \in { c \in x : c + k <= 31 } }

\* x >> k on a uint32_t
Shr(x, k) == { b - k : b \in { c \in x : c >= k } }

\* 1ULL << k
OneULL(k) == { b \in Bit64 : b = k }

\* (uint32_t)x for a uint64_t x
ToU32(x) == x \cap Bit

\* x - 1 on an unsigned integer of the given bit positions (wraps at 0)
Dec(x, bits) ==
  IF x = {} THEN bits
  ELSE LET low == CHOOSE b \in x : \A c \in x : b <= c
       IN  (x \ {low}) \cup { c \in bits : c < low }

\* mask = (uint32_t)(1ULL << bitsPerItem) - 1
MaskOf(bitsPerItem) == Dec(ToU32(OneULL(bitsPerItem)), Bit)

\* faulty variant of PACKEDARRAY_IMPL_MASK: a mask one bit too short
ImplMaskShort(B) == ToU32(Dec(OneULL(B - 1), Bit64))

\* PACKEDARRAY_IMPL_MASK = (uint32_t)((1ULL << PACKEDARRAY_IMPL_BITS_PER_ITEM) - 1)
PACKEDARRAY_IMPL_MASK(B) == ToU32(Dec(OneULL(B), Bit64))

\* ------------------------------------------------------------------- memory

\* number of uint32_t cells of the buffer of an array
BufferSizeOf(bitsPerItem, count) == (bitsPerItem * count + 31) \div 32

\* *p for a pointer into the buffer; a cell outside the allocated block
\* holds whatever the heap holds there
Load(buf, heap, w) == IF w \in DOMAIN buf THEN buf[w] ELSE heap

\* *p = v for a pointer into the buffer
Store(buf, w, v) == IF w \in DOMAIN buf THEN [buf EXCEPT ![w] = v] ELSE buf

\* *in for the caller's input array; past its end, whatever memory holds
InAt(in, heap, k) == IF k \in DOMAIN in THEN in[k] ELSE heap

\* ------------------------------------------------------- single item access

\* ((uint64_t)offset * (uint64_t)bitsPerItem) / 32: the buffer cell of an item
CellOf(offset, bitsPerItem) == (offset * bitsPerItem) \div 32

\* faulty variant of StartBitOf: items are laid out from the high end of
\* the cell whenever they fit there
StartBitHigh(offset, bitsPerItem) ==
  IF 32 % bitsPerItem = 0
  THEN 32 - bitsPerItem - ((offset * bitsPerItem) % 32)
  ELSE (offset * bitsPerItem) % 32

\* ((uint64_t)offset * (uint64_t)bitsPerItem) % 32: the first bit of an item
StartBitOf(offset, bitsPerItem) == (offset * bitsPerItem) % 32

\* faulty variant of PackedArray_set: the first cell is overwritten with the
\* shifted value instead of merged with it
SetWholeCell(buf, heap, bitsPerItem, offset, in) ==
  [ buf |-> Store(buf, CellOf(offset, bitsPerItem),
                  Shl(in, StartBitOf(offset, bitsPerItem))),
    touched |-> {CellOf(offset, bitsPerItem)} ]

\* faulty variant of PackedArray_set: the new value is or-ed into the cells
\* without clearing the bits of the item first
SetWithoutClear(buf, heap, bitsPerItem, offset, in) ==
  LET out == CellOf(offset, bitsPerItem)
      startBit == StartBitOf(offset, bitsPerItem)
      bitsAvailable == 32 - startBit
  IN  IF bitsPerItem <= bitsAvailable
      THEN [ buf |-> Store(buf, out, Or(Load(buf, heap, out), Shl(in, startBit))),
             touched |-> {out} ]
      ELSE LET b0 == Store(buf, out, Or(Load(buf, heap, out), Shl(in, startBit)))
           IN  [ buf |-> Store(b0, out + 1,
                           Or(Load(b0, heap, out + 1), Shr(in, bitsAvailable))),
                 touched |-> {out, out + 1} ]

\* PackedArray_set: the buffer after a->buffer item offset is set to in.
\* The result records the cells read and written.
PackedArray_set(buf, heap, bitsPerItem, offset, in) ==
  LET out == CellOf(offset, bitsPerItem)
      startBit == StartBitOf(offset, bitsPerItem)
      bitsAvailable == 32 - startBit
      mask == MaskOf(bitsPerItem)
  IN  IF bitsPerItem <= bitsAvailable
      THEN [ buf |-> Store(buf, out,
                       Or(And(Load(buf, heap, out), Not(Shl(mask, startBit))),
                          Shl(in, startBit))),
             touched |-> {out} ]
      ELSE \* value spans 2 buffer cells
           LET low == Shl(in, startBit)
               high == Shr(in, bitsAvailable)
               b0 == Store(buf, out,
                       Or(And(Load(buf, heap, out), Not(Shl(mask, startBit))), low))
           IN  [ buf |-> Store(b0, out + 1,
                           Or(And(Load(b0, heap, out + 1),
                                  Not(Shr(mask, 32 - startBit))), high)),
                 touched |-> {out, out + 1} ]

\* faulty variant of PackedArray_get: the part of the item in the second
\* cell is not read
GetLowOnly(buf, heap, bitsPerItem, offset) ==
  LET in == CellOf(offset, bitsPerItem)
      startBit == StartBitOf(offset, bitsPerItem)
  IN  [ out |-> And(Shr(Load(buf, heap, in), startBit), MaskOf(bitsPerItem)),
        touched |-> {in} ]

\* faulty variant of PackedArray_get: an item within one cell is read
\* without the mask
GetUnmasked(buf, heap, bitsPerItem, offset) ==
  LET in == CellOf(offset, bitsPerItem)
      startBit == StartBitOf(offset, bitsPerItem)
      bitsAvailable == 32 - startBit
      mask == MaskOf(bitsPerItem)
  IN  IF bitsPerItem <= bitsAvailable
      THEN [ out |-> Shr(Load(buf, heap, in), startBit),
             touched |-> {in} ]
      ELSE LET low == Shr(Load(buf, heap, in), startBit)
               high == Shl(Load(buf, heap, in + 1), 32 - startBit)
           IN  [ out |-> Xor(low, And(Xor(low, high),
                                      Shl(Shr(mask, bitsAvailable), bitsAvailable))),
                 touched |-> {in, in + 1} ]

\* faulty variant of PackedArray_get: in[1] is read whether or not the item
\* spans 2 buffer cells
GetBothCells(buf, heap, bitsPerItem, offset) ==
  LET in == CellOf(offset, bitsPerItem)
      startBit == StartBitOf(offset, bitsPerItem)
      bitsAvailable == 32 - startBit
      mask == MaskOf(bitsPerItem)
  IN  IF bitsPerItem <= bitsAvailable
      THEN [ out |-> And(Shr(Load(buf, heap, in), startBit), mask),
             touched |-> {in, in + 1} ]
      ELSE LET low == Shr(Load(buf, heap, in), startBit)
               high == Shl(Load(buf, heap, in + 1), 32 - startBit)
           IN  [ out |-> Xor(low, And(Xor(low, high),
                                      Shl(Shr(mask, bitsAvailable), bitsAvailable))),
                 touched |-> {in, in + 1} ]

\* PackedArray_get: the value of item offset, with the cells read
PackedArray_get(buf, heap, bitsPerItem, offset) ==
  LET in == CellOf(offset, bitsPerItem)
      startBit == StartBitOf(offset, bitsPerItem)
      bitsAvailable == 32 - startBit
      mask == MaskOf(bitsPerItem)
  IN  IF bitsPerItem <= bitsAvailable
      THEN [ out |-> And(Shr(Load(buf, heap, in), startBit), mask),
             touched |-> {in} ]
      ELSE \* out spans 2 buffer cells
           LET low == Shr(Load(buf, heap, in), startBit)
               high == Shl(Load(buf, heap, in + 1), 32 - startBit)
           IN  [ out |-> Xor(low, And(Xor(low, high),
                                      Shl(Shr(mask, bitsAvailable), bitsAvailable))),
                 touched |-> {in, in + 1} ]

\* ------------------------------------------------ generic pack / unpack loops

\* faulty variant of PackReferenceStep: an item that spans 2 cells leaves
\* startBit past 32
PackReferenceStepNoWrap(s, heap, bitsPerItem, mask, value) ==
  IF bitsPerItem <= s.bitsAvailable
  THEN [ s EXCEPT
           !.packed = Or(And(s.packed, Not(Shl(mask, s.startBit))),
                         Shl(value, s.startBit)),
           !.startBit = s.startBit + bitsPerItem,
           !.bitsAvailable = s.bitsAvailable - bitsPerItem,
           !.next = s.next + 1 ]
  ELSE [ s EXCEPT
           !.out = s.out + 1,
           !.startBit = s.startBit + bitsPerItem,
           !.bitsAvailable = 32 - ((s.startBit + bitsPerItem) % 32),
           !.touched = s.touched \cup {s.out, s.out + 1},
           !.next = s.next + 1 ]

\* the body of the while loop of PackedArray_pack_reference.
\* s: out (cell index), startBit, bitsAvailable, packed, count (iterations
\* left), next (index of the next input value, from 1), buf, touched.
PackReferenceStep(s, heap, bitsPerItem, mask, value) ==
  IF bitsPerItem <= s.bitsAvailable
  THEN [ s EXCEPT
           !.packed = Or(And(s.packed, Not(Shl(mask, s.startBit))),
                         Shl(value, s.startBit)),
           !.startBit = s.startBit + bitsPerItem,
           !.bitsAvailable = s.bitsAvailable - bitsPerItem,
           !.next = s.next + 1 ]
  ELSE IF s.bitsAvailable = 0
  THEN LET b0 == Store(s.buf, s.out, s.packed)
       IN  [ s EXCEPT
               !.buf = b0,
               !.out = s.out + 1,
               !.packed = Or(And(Load(b0, heap, s.out + 1), Not(mask)), value),
               !.startBit = 0 + bitsPerItem,
               !.bitsAvailable = 32 - bitsPerItem,
               !.touched = s.touched \cup {s.out, s.out + 1},
               !.next = s.next + 1 ]
  ELSE \* value spans 2 buffer cells
       LET low == Shl(value, s.startBit)
           high == Shr(value, s.bitsAvailable)
           b0 == Store(s.buf, s.out,
                       Or(And(s.packed, Not(Shl(mask, s.startBit))), low))
       IN  [ s EXCEPT
               !.buf = b0,
               !.out = s.out + 1,
               !.packed = Or(And(Load(b0, heap, s.out + 1),
                                 Not(Shr(mask, 32 - s.startBit))), high),
               !.startBit = (s.startBit + bitsPerItem) % 32,
               !.bitsAvailable = 32 - ((s.startBit + bitsPerItem) % 32),
               !.touched = s.touched \cup {s.out, s.out + 1},
               !.next = s.next + 1 ]

\* while (count--) of PackedArray_pack_reference
RECURSIVE PackReferenceLoop(_, _, _, _, _)
PackReferenceLoop(s, heap, bitsPerItem, mask, in) ==
  IF s.count = 0 THEN s
  ELSE PackReferenceLoop(
         PackReferenceStep([ s EXCEPT !.count = s.count - 1 ], heap, bitsPerItem,
                           mask, InAt(in, heap, s.next)),
         heap, bitsPerItem, mask, in)

\* PackedArray_pack_reference: the buffer after packing in[1..count] at
\* item offset, with the cells read and written and the inputs consumed
PackedArray_pack_reference(buf, heap, bitsPerItem, offset, in, count) ==
  LET out == CellOf(offset, bitsPerItem)
      startBit == StartBitOf(offset, bitsPerItem)
      s0 == [ out |-> out, startBit |-> startBit,
              bitsAvailable |-> 32 - startBit,
              packed |-> Load(buf, heap, out), count |-> count, next |-> 1,
              buf |-> buf, touched |-> {out} ]
      s == PackReferenceLoop(s0, heap, bitsPerItem, MaskOf(bitsPerItem), in)
  IN  [ buf |-> Store(s.buf, s.out, s.packed),
        touched |-> s.touched \cup {s.out},
        consumed |-> s.next - 1 ]

\* the body of the while loop of PackedArray_unpack_reference.
\* s: in (cell index), startBit, bitsAvailable, packed, count (iterations
\* left), out (the values written so far), touched.
UnpackReferenceStep(s, buf, heap, bitsPerItem, mask) ==
  IF bitsPerItem <= s.bitsAvailable
  THEN [ s EXCEPT
           !.out = Append(s.out, And(Shr(s.packed, s.startBit), mask)),
           !.startBit = s.startBit + bitsPerItem,
           !.bitsAvailable = s.bitsAvailable - bitsPerItem ]
  ELSE IF s.bitsAvailable = 0
  THEN LET packed == Load(buf, heap, s.in + 1)
       IN  [ s EXCEPT
               !.in = s.in + 1,
               !.packed = packed,
               !.out = Append(s.out, And(packed, mask)),
               !.startBit = bitsPerItem,
               !.bitsAvailable = 32 - bitsPerItem,
               !.touched = s.touched \cup {s.in + 1} ]
  ELSE \* value spans 2 buffer cells
       LET low == Shr(s.packed, s.startBit)
           packed == Load(buf, heap, s.in + 1)
           high == Shl(packed, 32 - s.startBit)
           value == Xor(low, And(Xor(low, high),
                         Shl(Shr(mask, s.bitsAvailable), s.bitsAvailable)))
       IN  [ s EXCEPT
               !.in = s.in + 1,
               !.packed = packed,
               !.out = Append(s.out, value),
               !.startBit = (s.startBit + bitsPerItem) % 32,
               !.bitsAvailable = 32 - ((s.startBit + bitsPerItem) % 32),
               !.touched = s.touched \cup {s.in + 1} ]

\* while (count--) of PackedArray_unpack_reference
RECURSIVE UnpackReferenceLoop(_, _, _, _, _)
UnpackReferenceLoop(s, buf, heap, bitsPerItem, mask) ==
  IF s.count = 0 THEN s
  ELSE UnpackReferenceLoop(
         UnpackReferenceStep([ s EXCEPT !.count = s.count - 1 ], buf, heap,
                             bitsPerItem, mask),
         buf, heap, bitsPerItem, mask)

\* PackedArray_unpack_reference: the values written to out[1..count], with
\* the cells read
PackedArray_unpack_reference(buf, heap, bitsPerItem, offset, count) ==
  LET in == CellOf(offset, bitsPerItem)
      startBit == StartBitOf(offset, bitsPerItem)
      s0 == [ in |-> in, startBit |-> startBit,
              bitsAvailable |-> 32 - startBit,
              packed |-> Load(buf, heap, in), count |-> count,
              out |-> << >>, touched |-> {in} ]
      s == UnpackReferenceLoop(s0, buf, heap, bitsPerItem, MaskOf(bitsPerItem))
  IN  [ out |-> s.out, touched |-> s.touched ]

\* ------------------------------------- specialized pack / unpack, per width

\* faulty variant of PACKEDARRAY_IMPL_START_BIT: the bit position is not
\* reduced to the cell
ImplStartBitUnreduced(i, B) == i * B

\* PACKEDARRAY_IMPL_START_BIT of case i of width B
PACKEDARRAY_IMPL_START_BIT(i, B) == (i * B) % 32

\* PACKEDARRAY_IMPL_BITS_AVAILABLE of case i of width B
PACKEDARRAY_IMPL_BITS_AVAILABLE(i, B) == 32 - ((i * B) % 32)

\* faulty variant of PackCase: the high part of an item that spans two
\* cells is dropped
PackCaseLowOnly(s, heap, B, in) ==
  LET value == InAt(in, heap, s.next)
      merged == Or(s.packed, Shl(value, PACKEDARRAY_IMPL_START_BIT(s.case, B)))
  IN  IF B < PACKEDARRAY_IMPL_BITS_AVAILABLE(s.case, B)
      THEN [ s EXCEPT !.packed = merged,
                      !.next = s.next + 1,
                      !.case = s.case + 1 ]
      ELSE [ s EXCEPT !.buf = Store(s.buf, s.out, merged),
                      !.touched = s.touched \cup {s.out},
                      !.out = s.out + 1,
                      !.packed = {},
                      !.next = s.next + 1,
                      !.case = s.case + 1 ]

\* case s.case of PACKEDARRAY_IMPL_PACK_CASES for width B, falling through
\* to the next case.
\* s: case (the case label reached, 32 past the last), n (cycles left), out
\* (cell index), packed, next (index of the next input), buf, touched.
PackCase(s, heap, B, in) ==
  LET value == InAt(in, heap, s.next)
      merged == Or(s.packed, Shl(value, PACKEDARRAY_IMPL_START_BIT(s.case, B)))
  IN  IF B <= PACKEDARRAY_IMPL_BITS_AVAILABLE(s.case, B)
      THEN IF B = PACKEDARRAY_IMPL_BITS_AVAILABLE(s.case, B)
           THEN [ s EXCEPT !.buf = Store(s.buf, s.out, merged),
                           !.touched = s.touched \cup {s.out},
                           !.out = s.out + 1,
                           !.packed = {},
                           !.next = s.next + 1,
                           !.case = s.case + 1 ]
           ELSE [ s EXCEPT !.packed = merged,
                           !.next = s.next + 1,
                           !.case = s.case + 1 ]
      ELSE [ s EXCEPT !.buf = Store(s.buf, s.out, merged),
                      !.touched = s.touched \cup {s.out},
                      !.out = s.out + 1,
                      !.packed = Shr(value,
                                     PACKEDARRAY_IMPL_BITS_AVAILABLE(s.case, B)),
                      !.next = s.next + 1,
                      !.case = s.case + 1 ]

\* faulty variant of PackCycles: the do-while runs one cycle whatever n is
RECURSIVE PackCyclesOnce(_, _, _, _)
PackCyclesOnce(s, heap, B, in) ==
  LET t == PackCase(s, heap, B, in)
  IN  IF t.case <= 31 THEN PackCyclesOnce(t, heap, B, in)
      ELSE [ t EXCEPT !.n = t.n - 1 ]

\* switch (offset) { do { cases } while (--n > 0); } of __PackedArray_pack_<B>,
\* entered at case s.case with s.n cycles to run
RECURSIVE PackCycles(_, _, _, _)
PackCycles(s, heap, B, in) ==
  LET t == PackCase(s, heap, B, in)
  IN  IF t.case <= 31 THEN PackCycles(t, heap, B, in)
      ELSE IF t.n - 1 > 0
      THEN PackCycles([ t EXCEPT !.case = 0, !.n = t.n - 1 ], heap, B, in)
      ELSE [ t EXCEPT !.n = t.n - 1 ]

\* faulty variant of PackTail: the cases are not followed by
\* if (in == end) break
RECURSIVE PackTailNoBreak(_, _, _, _, _)
PackTailNoBreak(s, heap, B, in, end) ==
  LET t == PackCase(s, heap, B, in)
  IN  IF t.case <= 31 THEN PackTailNoBreak(t, heap, B, in, end) ELSE t

\* switch (offset) { cases, each followed by if (in == end) break; } of
\* __PackedArray_pack_<B>, entered at case s.case
RECURSIVE PackTail(_, _, _, _, _)
PackTail(s, heap, B, in, end) ==
  LET t == PackCase(s, heap, B, in)
  IN  IF t.next = end THEN t
      ELSE IF t.case <= 31 THEN PackTail(t, heap, B, in, end)
      ELSE t

\* faulty variant of PackStart: the accumulator starts empty
PackStartZero(buf, heap, out, startBit) == {}

\* packed = *out & (uint32_t)((1ULL << startBit) - 1): the accumulator
\* starts with the bits of the first cell below the first item
PackStart(buf, heap, out, startBit) ==
  And(Load(buf, heap, out), ToU32(Dec(OneULL(startBit), Bit64)))

\* faulty variant of PackFlush: the accumulator is flushed as it is
PackFlushPlain(packed, word, B, count, startBit) == packed

\* packed |= *out & ~((uint32_t)(1ULL << ((count * B + startBit - 1) % 32
\* + 1)) - 1): the last cell keeps its bits above the last item
PackFlush(packed, word, B, count, startBit) ==
  Or(packed, And(word, Not(MaskOf(((count * B + startBit - 1) % 32) + 1))))

\* __PackedArray_pack_<B>: the buffer after packing in[1..count] at item
\* offset, the cells read and written, the inputs consumed and whether
\* PACKEDARRAY_ASSERT(in == end) held (TRUE when it was not reached)
PackedArray_pack_N(buf, heap, B, offset0, in, count0) ==
  LET out0 == CellOf(offset0, B)
      startBit0 == StartBitOf(offset0, B)
      offset1 == offset0 % 32
      cycle == count0 >= 32 - offset1
      n == (count0 + offset1) \div 32
      s0 == [ case |-> offset1, n |-> n, out |-> out0,
              packed |-> PackStart(buf, heap, out0, startBit0),
              next |-> 1, buf |-> buf, touched |-> {out0} ]
      count == IF cycle THEN count0 - (32 * n - offset1) ELSE count0
      s1 == IF cycle THEN PackCycles(s0, heap, B, in) ELSE s0
      offset == IF cycle THEN 0 ELSE offset1
      startBit == IF cycle THEN 0 ELSE startBit0
  IN  IF cycle /\ count = 0
      THEN [ buf |-> s1.buf, touched |-> s1.touched,
             consumed |-> s1.next - 1, asserted |-> TRUE ]
      ELSE LET end == s1.next + count
               s2 == PackTail([ s1 EXCEPT !.case = offset ], heap, B, in, end)
           IN  IF (count * B + startBit) % 32 # 0
               THEN [ buf |-> Store(s2.buf, s2.out,
                         PackFlush(s2.packed, Load(s2.buf, heap, s2.out),
                                   B, count, startBit)),
                      touched |-> s2.touched \cup {s2.out},
                      consumed |-> s2.next - 1,
                      asserted |-> (s2.next = end) ]
               ELSE [ buf |-> s2.buf, touched |-> s2.touched,
                      consumed |-> s2.next - 1,
                      asserted |-> (s2.next = end) ]

\* PackedArray_pack: switch (a->bitsPerItem) over the 32 generated functions
PackedArray_pack(buf, heap, bitsPerItem, offset, in, count) ==
  IF bitsPerItem \in 1 .. 32
  THEN PackedArray_pack_N(buf, heap, bitsPerItem, offset, in, count)
  ELSE [ buf |-> buf, touched |-> {}, consumed |-> 0, asserted |-> TRUE ]

\* faulty variant of UnpackCase: an item that fits its cell is not masked
UnpackCaseUnmasked(s, buf, heap, B) ==
  IF B <= PACKEDARRAY_IMPL_BITS_AVAILABLE(s.case, B)
  THEN [ s EXCEPT !.out = Append(s.out,
                     Shr(s.packed, PACKEDARRAY_IMPL_START_BIT(s.case, B))) ]
  ELSE LET low == Shr(s.packed, PACKEDARRAY_IMPL_START_BIT(s.case, B))
           packed == Load(buf, heap, s.in + 1)
           high == Shl(packed, PACKEDARRAY_IMPL_BITS_AVAILABLE(s.case, B))
       IN  [ s EXCEPT !.in = s.in + 1,
                      !.packed = packed,
                      !.touched = s.touched \cup {s.in + 1},
                      !.out = Append(s.out,
                                And(Or(low, high), PACKEDARRAY_IMPL_MASK(B))) ]

\* case s.case of PACKEDARRAY_IMPL_UNPACK_CASES for width B, up to
\* PACKEDARRAY_IMPL_UNPACK_CASE_BREAK.
\* s: case (the case label reached), n (cycles left), in (cell index),
\* packed, out (the values written so far), touched.
UnpackCase(s, buf, heap, B) ==
  IF B <= PACKEDARRAY_IMPL_BITS_AVAILABLE(s.case, B)
  THEN [ s EXCEPT !.out = Append(s.out,
                     And(Shr(s.packed, PACKEDARRAY_IMPL_START_BIT(s.case, B)),
                         PACKEDARRAY_IMPL_MASK(B))) ]
  ELSE LET low == Shr(s.packed, PACKEDARRAY_IMPL_START_BIT(s.case, B))
           packed == Load(buf, heap, s.in + 1)
           high == Shl(packed, PACKEDARRAY_IMPL_BITS_AVAILABLE(s.case, B))
       IN  [ s EXCEPT !.in = s.in + 1,
                      !.packed = packed,
                      !.touched = s.touched \cup {s.in + 1},
                      !.out = Append(s.out,
                                And(Or(low, high), PACKEDARRAY_IMPL_MASK(B))) ]

\* the rest of case s.case after PACKEDARRAY_IMPL_UNPACK_CASE_BREAK, falling
\* through to the next case: packed = *++in when the item of a case before
\* 31 ends its cell
UnpackCaseRest(s, buf, heap, B) ==
  IF B <= PACKEDARRAY_IMPL_BITS_AVAILABLE(s.case, B)
     /\ s.case < 31 /\ B = PACKEDARRAY_IMPL_BITS_AVAILABLE(s.case, B)
  THEN [ s EXCEPT !.in = s.in + 1,
                  !.packed = Load(buf, heap, s.in + 1),
                  !.touched = s.touched \cup {s.in + 1},
                  !.case = s.case + 1 ]
  ELSE [ s EXCEPT !.case = s.case + 1 ]

\* switch (offset) { do { packed = *++in; cases } while (--n > 0); } of
\* __PackedArray_unpack_<B>, entered at case s.case with s.n cycles to run;
\* the jump into the loop skips the first packed = *++in
RECURSIVE UnpackCycles(_, _, _, _)
UnpackCycles(s, buf, heap, B) ==
  LET t == UnpackCaseRest(UnpackCase(s, buf, heap, B), buf, heap, B)
  IN  IF t.case <= 31 THEN UnpackCycles(t, buf, heap, B)
      ELSE IF t.n - 1 > 0
      THEN UnpackCycles([ t EXCEPT !.case = 0,
                                   !.n = t.n - 1,
                                   !.in = t.in + 1,
                                   !.packed = Load(buf, heap, t.in + 1),
                                   !.touched = t.touched \cup {t.in + 1} ],
                        buf, heap, B)
      ELSE [ t EXCEPT !.n = t.n - 1 ]

\* faulty variant of UnpackTail: the cases are not followed by
\* if (out == end) break
RECURSIVE UnpackTailNoBreak(_, _, _, _, _)
UnpackTailNoBreak(s, buf, heap, B, end) ==
  LET t == UnpackCase(s, buf, heap, B)
  IN  IF t.case < 31
      THEN UnpackTailNoBreak(UnpackCaseRest(t, buf, heap, B), buf, heap, B, end)
      ELSE t

\* faulty variant of UnpackTail: if (out == end) break comes after the
\* packed = *++in of a case whose item ends its cell
RECURSIVE UnpackTailBreakLate(_, _, _, _, _)
UnpackTailBreakLate(s, buf, heap, B, end) ==
  LET t == UnpackCaseRest(UnpackCase(s, buf, heap, B), buf, heap, B)
  IN  IF Len(t.out) = end THEN t
      ELSE IF t.case <= 31 THEN UnpackTailBreakLate(t, buf, heap, B, end)
      ELSE t

\* switch (offset) { cases, with if (out == end) break; } of
\* __PackedArray_unpack_<B>, entered at case s.case
RECURSIVE UnpackTail(_, _, _, _, _)
UnpackTail(s, buf, heap, B, end) ==
  LET t == UnpackCase(s, buf, heap, B)
  IN  IF Len(t.out) = end THEN t
      ELSE IF t.case < 31
      THEN UnpackTail(UnpackCaseRest(t, buf, heap, B), buf, heap, B, end)
      ELSE t

\* __PackedArray_unpack_<B>: the values written to out, the cells read and
\* whether PACKEDARRAY_ASSERT(out == end) held (TRUE when it was not reached)
PackedArray_unpack_N(buf, heap, B, offset0, count0) ==
  LET in0 == CellOf(offset0, B)
      offset1 == offset0 % 32
      cycle == count0 >= 32 - offset1
      n == (count0 + offset1) \div 32
      s0 == [ case |-> offset1, n |-> n, in |-> in0,
              packed |-> Load(buf, heap, in0),
              out |-> << >>, touched |-> {in0} ]
      count == IF cycle THEN count0 - (32 * n - offset1) ELSE count0
      s1 == IF cycle THEN UnpackCycles(s0, buf, heap, B) ELSE s0
      offset == IF cycle THEN 0 ELSE offset1
  IN  IF cycle /\ count = 0
      THEN [ out |-> s1.out, touched |-> s1.touched, asserted |-> TRUE ]
      ELSE LET s2 == IF cycle
                     THEN [ s1 EXCEPT !.in = s1.in + 1,
                                      !.packed = Load(buf, heap, s1.in + 1),
                                      !.touched = s1.touched \cup {s1.in + 1},
                                      !.case = offset ]
                     ELSE s1
               end == Len(s2.out) + count
               s3 == UnpackTail(s2, buf, heap, B, end)
           IN  [ out |-> s3.out, touched |-> s3.touched,
                 asserted |-> (Len(s3.out) = end) ]

\* PackedArray_unpack: switch (a->bitsPerItem) over the 32 generated functions
PackedArray_unpack(buf, heap, bitsPerItem, offset, count) ==
  IF bitsPerItem \in 1 .. 32
  THEN PackedArray_unpack_N(buf, heap, bitsPerItem, offset, count)
  ELSE [ out |-> << >>, touched |-> {}, asserted |-> TRUE ]

\* ------------------------------------------------- 64 bit size arithmetic

\* the carry into bit b of x + y: some lower bit generates one and every
\* bit in between propagates it
CarryInto(x, y, b) ==
  \E j \in 0 .. b - 1 :
    /\ j \in x /\ j \in y
    /\ \A i \in j + 1 .. b - 1 : i \in x \/ i \in y

\* x + y on a uint64_t (wraps at 2^64)
Add64(x, y) ==
  CHOOSE r \in { { b \in Bit64 : ((b \in a) # (b \in c)) # CarryInto(a, c, b) } :
                 a \in {x}, c \in {y} } : TRUE

\* x - y on a uint64_t
Sub64(x, y) == Add64(x, Add64(Bit64 \ y, {0}))

\* k * x on a uint64_t, for a small integer k
RECURSIVE Mul64(_, _)
Mul64(k, x) ==
  IF k = 0 THEN {}
  ELSE LET twice == { b + 1 : b \in { c \in Mul64(k \div 2, x) : c < 63 } }
       IN  IF k % 2 = 1 THEN Add64(x, twice) ELSE twice

\* the unsigned integer n as the set of its set bits
ToBits(n) == { b \in 0 .. 30 : (n \div (2 ^ b)) % 2 = 1 }

\* (size_t)x, size_t being w bits wide
ToSizeT(x, w) == { b \in x : b < w }

\* sizeof(PackedArray): bitsPerItem, count and padding[2], four uint32_t
SizeofPackedArray == 16

\* ((uint64_t)bitsPerItem * (uint64_t)count + 31) / 32, on a uint64_t
BufferCells(bits, c) == Shr(Add64(Mul64(bits, c), ToBits(31)), 5)

\* ((uint64_t)bitsPerItem * (uint64_t)count + 31) / 32 - 1, on a uint64_t:
\* the index of the buffer cell PackedArray_create sets to 0
CreateZeroIndex(bits, c) == Sub64(BufferCells(bits, c), {0})

\* PackedArray_bufferSize, bitsPerItem an integer and count a uint32_t
PackedArray_bufferSize(bits, c) == ToU32(BufferCells(bits, c))

\* the argument of PACKEDARRAY_MALLOC in PackedArray_create: bufferSize =
\* sizeof(uint32_t) * cells is stored in a size_t, and so is the sum
MallocSize(bits, c, w) ==
  ToSizeT(Add64(ToBits(SizeofPackedArray),
                ToSizeT(Mul64(4, BufferCells(bits, c)), w)), w)

\* the uint32_t cells of a block of the given size that lie after the header
CellsAllocated(size) ==
  IF size \ ToBits(SizeofPackedArray - 1) # {}
  THEN Shr(Sub64(size, ToBits(SizeofPackedArray)), 2)
  ELSE {}

\* ------------------------------------------------- the shifts of the steps

\* the action the generic loops take for an item: the if, the else if or
\* the else of the loop body
ReferenceBranch(s, bitsPerItem) ==
  IF bitsPerItem <= s.bitsAvailable THEN "fits"
  ELSE IF s.bitsAvailable = 0 THEN "fills"
  ELSE "straddles"

\* the shifts of uint32_t operands in an action of set, get and the generic
\* loops, each with its amount and the startBit it is executed at: fits
\* shifts by startBit; the else if of the loops shifts nothing; the else
\* shifts by startBit, by bitsAvailable and by 32 - startBit
ShiftsAt(branch, startBit, bitsAvailable) ==
  IF branch = "fits" THEN { << "startBit", startBit, startBit >> }
  ELSE IF branch = "fills" THEN {}
  ELSE { << "startBit", startBit, startBit >>,
         << "bitsAvailable", bitsAvailable, startBit >>,
         << "32 - startBit", 32 - startBit, startBit >> }

\* faulty variant of ItemShifts: an item that ends its cell is taken for
\* one that spans 2 cells
ItemShiftsStrict(bitsPerItem, offset) ==
  ShiftsAt(IF bitsPerItem < 32 - StartBitOf(offset, bitsPerItem)
           THEN "fits" ELSE "straddles",
           StartBitOf(offset, bitsPerItem), 32 - StartBitOf(offset, bitsPerItem))

\* the shifts of PackedArray_set and of PackedArray_get for item offset
ItemShifts(bitsPerItem, offset) ==
  ShiftsAt(IF bitsPerItem <= 32 - StartBitOf(offset, bitsPerItem)
           THEN "fits" ELSE "straddles",
           StartBitOf(offset, bitsPerItem), 32 - StartBitOf(offset, bitsPerItem))

\* the shifts of an iteration of the generic loops entered in state s
ReferenceShifts(s, bitsPerItem) ==
  ShiftsAt(ReferenceBranch(s, bitsPerItem), s.startBit, s.bitsAvailable)

\* the shifts of case i of PACKEDARRAY_IMPL_PACK_CASES and of
\* PACKEDARRAY_IMPL_UNPACK_CASES for width B: by PACKEDARRAY_IMPL_START_BIT,
\* and by PACKEDARRAY_IMPL_BITS_AVAILABLE in the #else
CaseShifts(i, B) ==
  { << "startBit", PACKEDARRAY_IMPL_START_BIT(i, B), PACKEDARRAY_IMPL_START_BIT(i, B) >> }
    \cup (IF B <= PACKEDARRAY_IMPL_BITS_AVAILABLE(i, B) THEN {}
          ELSE { << "bitsAvailable", PACKEDARRAY_IMPL_BITS_AVAILABLE(i, B),
                    PACKEDARRAY_IMPL_START_BIT(i, B) >> })

\* the state of PackedArray_pack_reference when it reaches its loop
PackReferenceStart(buf, heap, bitsPerItem, offset, count) ==
  [ out |-> CellOf(offset, bitsPerItem),
    startBit |-> StartBitOf(offset, bitsPerItem),
    bitsAvailable |-> 32 - StartBitOf(offset, bitsPerItem),
    packed |-> Load(buf, heap, CellOf(offset, bitsPerItem)),
    count |-> count, next |-> 1, buf |-> buf,
    touched |-> {CellOf(offset, bitsPerItem)} ]

\* the state of PackedArray_unpack_reference when it reaches its loop
UnpackReferenceStart(buf, heap, bitsPerItem, offset, count) ==
  [ in |-> CellOf(offset, bitsPerItem),
    startBit |-> StartBitOf(offset, bitsPerItem),
    bitsAvailable |-> 32 - StartBitOf(offset, bitsPerItem),
    packed |-> Load(buf, heap, CellOf(offset, bitsPerItem)),
    count |-> count, out |-> << >>,
    touched |-> {CellOf(offset, bitsPerItem)} ]

\* ------------------------------------------------------------ the bit cursor

\* faulty variant of BitPosition: the product is computed on uint32_t
BitPosition32(offset, bits) == ToU32(Mul64(bits, offset))

\* (uint64_t)offset * (uint64_t)bitsPerItem, offset a uint32_t
BitPosition(offset, bits) == Mul64(bits, offset)

\* ((uint64_t)offset * (uint64_t)bitsPerItem) / 32, the index of the cell
CursorCell(offset, bits) == Shr(BitPosition(offset, bits), 5)

\* startBit = ((uint64_t)offset * (uint64_t)bitsPerItem) % 32
CursorStartBit(offset, bits) == BitPosition(offset, bits) \cap (0 .. 4)

\* ------------------------------------------------ the width of the values

\* the multiplier of the De Bruijn lookup, 0x7C4ACDD
DeBruijn == 130329821

\* static const uint32_t multiplyDeBruijnBitPosition[32], indexed from 0
multiplyDeBruijnBitPosition ==
  << 0, 9, 1, 10, 13, 21, 2, 29, 11, 14, 16, 18, 22, 25, 3, 30,
     8, 12, 20, 28, 15, 17, 24, 7, 19, 27, 23, 6, 26, 5, 4, 31 >>

\* the bits of x * y from bit b of y up, on a uint32_t (wraps at 2^32)
RECURSIVE MulFrom(_, _, _)
MulFrom(x, y, b) ==
  IF b > 31 THEN {}
  ELSE IF b \in y THEN ToU32(Add64(Shl(x, b), MulFrom(x, y, b + 1)))
       ELSE MulFrom(x, y, b + 1)

\* x * y on a uint32_t
Mul32(x, y) == MulFrom(x, y, 0)

\* the unsigned value of a uint32_t below 2^5, as an integer
IndexOf(x) ==
  (IF 0 \in x THEN 1 ELSE 0) + (IF 1 \in x THEN 2 ELSE 0) + (IF 2 \in x THEN 4 ELSE 0)
    + (IF 3 \in x THEN 8 ELSE 0) + (IF 4 \in x THEN 16 ELSE 0)

\* v |= v >> k
Smear(v, k) == Or(v, Shr(v, k))

\* __PackedArray_log2 without its last smearing step
Log2NoSmear16(v) ==
  LET w == Smear(Smear(Smear(Smear(v, 1), 2), 4), 8)
  IN  multiplyDeBruijnBitPosition[IndexOf(Shr(Mul32(w, ToBits(DeBruijn)), 27)) + 1]

\* __PackedArray_log2: the position of the highest bit set, by smearing
\* that bit over the lower ones and looking the product up
PackedArray_log2(v) ==
  LET w == Smear(Smear(Smear(Smear(Smear(v, 1), 2), 4), 8), 16)
  IN  multiplyDeBruijnBitPosition[IndexOf(Shr(Mul32(w, ToBits(DeBruijn)), 27)) + 1]

\* __builtin_clz(v), v not zero: the number of zero bits above the highest
\* bit set
BuiltinClz(v) == CHOOSE n \in 0 .. 31 : (31 - n) \in v /\ \A b \in v : b <= 31 - n

\* the ways __PackedArray_highestBitSet is compiled: with the compiler's
\* bit scan, or with __PackedArray_log2
Builds == {"builtin", "log2"}

\* __PackedArray_highestBitSet, as the build compiles it
PackedArray_highestBitSet(v, build) ==
  IF v = {} THEN -1
  ELSE IF build = "builtin" THEN 31 - BuiltinClz(v) ELSE PackedArray_log2(v)

\* in[i] > in_max on uint32_t
Greater(x, y) == \E b \in x \ y : \A c \in y \ x : c < b

\* in_max after the loop over in[i .. count - 1]
RECURSIVE InMax(_, _, _, _)
InMax(in, i, count, in_max) ==
  IF i >= count THEN in_max
  ELSE IF Greater(in[i + 1], in_max)
       THEN InMax(in, i + 1, count, in[i + 1])
       ELSE InMax(in, i + 1, count, in_max)

\* PackedArray_computeBitsPerItem(in, count), as the build compiles it
PackedArray_computeBitsPerItem(in, count, build) ==
  LET bits == PackedArray_highestBitSet(InMax(in, 0, count, {}), build) + 1
  IN  IF bits = 0 THEN 1 ELSE bits

\* ------------------------------------------- the whole-cycle arithmetic

\* what a build makes of a signed int product that does not fit: the low
\* 32 bits of it, or a trap
SignedOverflow == {"wrap", "trap"}

\* count >= 32 - offset on uint32_t, offset below 32
AtLeastOneCycle(count, offset) ==
  (\E b \in count : b >= 5) \/ IndexOf(count) >= 32 - offset

\* if (count >= 32 - offset) { n = (count + offset) / 32;
\* count -= 32 * n - offset; }, offset being offset % 32 already: n is an
\* int32_t, so 32 * n is a signed int product and overflows from 2^26 on
\* (overflow); count + offset, 32 * n - offset and count -= are uint32_t
BatchCounts(count, offset, build) ==
  LET sum == ToU32(Add64(count, ToBits(offset)))
      n == Shr(sum, 5)
      product == Mul64(32, n)
      overflow == \E b \in product : b >= 31
      done == ToU32(Sub64(ToU32(product), ToBits(offset)))
  IN  [ n |-> n,
        overflow |-> overflow,
        trapped |-> overflow /\ build = "trap",
        done |-> done,
        count |-> ToU32(Sub64(count, done)) ]

\* ---------------------------------------------------------------- the bounds

\* the number of items of the large arrays
MaxCount == 66

\* the largest number of items of the small arrays, which take any
\* sequence of calls under SeqSpec
SeqCount == 2

\* the largest item offset a bulk request starts at
MaxOffset == 33

\* the largest number of items of a short bulk request
MaxShort == 2

\* the largest number of values whose width is computed at once
MaxIn == 3

\* the largest number of items of a request whose loop is followed one
\* iteration at a time
MaxLoop == 3

\* the largest item count of the arrays on which calls of every kind follow
\* each other
CallCount == 1

\* ------------------------------------------------- the self test's harness

\* rand(): the word the harness stores in buffer cell w; the two seeds are
\* bitwise complements, so every bit of every cell takes both values
Rand(seed, w) ==
  LET p == { b \in Bit : ((b + 1) * (w + 3) + (b \div 5)) % 3 = 0 }
  IN  IF seed = 0 THEN p ELSE Not(p)

\* the seeds of rand()
Seeds == {0, 1}

\* v1[k] = rand() & mask, the k-th value the harness packs (k from 1); the
\* two seeds give complementary values, so every bit of every value takes
\* both values
V1(seed, k, bitsPerItem) ==
  LET p == { b \in Bit : ((b + 2) * (k + 1) + (b \div 3)) % 3 = 1 }
  IN  And(IF seed = 0 THEN p ELSE Not(p), MaskOf(bitsPerItem))

\* the item counts of the arrays the harness creates
Counts == (1 .. SeqCount) \cup {MaxCount}

\* the offsets within a 32 item cycle at which long requests start
Edge == {0, 31}

\* the bulk requests (offset, n) the harness makes on an array of c items,
\* offset + n <= c throughout: short requests at every offset up to
\* MaxOffset; from every such offset the request that ends its 32 item
\* cycle; and from the offsets at an edge of a cycle also the requests that
\* end one or two cycles on, one item past a cycle, or with the array
Requests(c) ==
  { r \in (0 .. c - 1) \X (1 .. c) :
      /\ r[1] + r[2] <= c
      /\ r[1] <= MaxOffset
      /\ \/ r[2] <= MaxShort
         \/ (r[1] + r[2]) % 32 = 0 /\ r[2] <= 32
         \/ /\ r[1] % 32 \in Edge
            /\ \/ (r[1] + r[2]) % 32 \in {0, 1}
               \/ r[1] + r[2] = c }

VARIABLES
  status,       \* "none", "created" (buffer not yet filled), "filled", "called"
  bitsPerItem,  \* a1->bitsPerItem and a2->bitsPerItem
  count,        \* a1->count and a2->count
  buffer,       \* a1->buffer: cell index (from 0) -> uint32_t
  reference,    \* a2->buffer, the twin the reference functions work on
  heap,         \* the uint32_t found in memory outside the allocated block
  plain,        \* the plain unsigned array a1 stands for: item index -> value
  call          \* the last call: its arguments, its results and a1->buffer before it

vars == <<status, bitsPerItem, count, buffer, reference, heap, plain, call>>

NoCall == [ op |-> "none" ]

Init ==
  /\ status = "none"
  /\ bitsPerItem = 0
  /\ count = 0
  /\ buffer = << >>
  /\ reference = << >>
  /\ heap = {}
  /\ plain = << >>
  /\ call = NoCall

\* faulty variant of PackedArray_create: no buffer cell is set to 0
CreateUnzeroed(seed, bits, c) ==
  [ w \in 0 .. BufferSizeOf(bits, c) - 1 |-> Rand(seed, w) ]

\* PackedArray_create, twice, allocation succeeding: malloc returns a block
\* of unspecified content, whose last buffer cell is then zeroed
PackedArray_create(seed, bits, c) ==
  LET size == BufferSizeOf(bits, c)
  IN  [ w \in 0 .. size - 1 |-> IF w = size - 1 THEN {} ELSE Rand(seed, w) ]

\* the items a buffer decodes to, read one by one
Decoded(buf, h, bits, c) ==
  [ i \in 0 .. c - 1 |-> PackedArray_get(buf, h, bits, i).out ]

\* a plain array after in[1..n] is stored at offset
Assigned(items, offset, in, n) ==
  [ i \in DOMAIN items |->
      IF offset <= i /\ i < offset + n THEN in[i - offset + 1] ELSE items[i] ]

\* the outcomes of PACKEDARRAY_MALLOC: no memory, or a block
Malloc == {"NULL", "block"}

\* faulty variant of CreateWrites: the result of PACKEDARRAY_MALLOC is not
\* tested
CreateWritesUnchecked(a, bits, c) == {"buffer", "bitsPerItem", "count"}

\* what PackedArray_create stores through a: the last buffer cell, then the
\* two fields, if a is not NULL
CreateWrites(a, bits, c) ==
  IF a # "NULL" THEN {"buffer", "bitsPerItem", "count"} ELSE {}

\* faulty variant of CreateFields: the two fields are stored swapped
CreateFieldsSwapped(bits, c) == [ bitsPerItem |-> c, count |-> bits ]

\* a->bitsPerItem = bitsPerItem; a->count = count
CreateFields(bits, c) == [ bitsPerItem |-> bits, count |-> c ]

Create ==
  /\ status = "none"
  /\ \E bits \in 1 .. 32, c \in Counts, seed \in Seeds :
       \E b \in { PackedArray_create(seed, bits, c) },
          h \in { Rand(seed, BufferSizeOf(bits, c)) },
          f \in { CreateFields(bits, c) } :
         /\ bitsPerItem' = f.bitsPerItem
         /\ count' = f.count
         /\ buffer' = b
         /\ reference' = b
         /\ heap' = h
         /\ plain' = Decoded(b, h, bits, c)
         /\ call' = [ op |-> "create", bitsPerItem |-> bits, count |-> c,
                      a |-> "block", writes |-> CreateWrites("block", bits, c) ]
  /\ status' = "created"

\* PackedArray_create, the allocation failing: the stores it performs, if
\* any, land where the fields would be
CreateFails ==
  /\ status = "none"
  /\ \E bits \in 1 .. 32, c \in Counts :
       \E a \in { "NULL" } :
         \E w \in { CreateWrites(a, bits, c) } :
           /\ bitsPerItem' = IF "bitsPerItem" \in w THEN CreateFields(bits, c).bitsPerItem
                                                   ELSE bitsPerItem
           /\ count' = IF "count" \in w THEN CreateFields(bits, c).count ELSE count
           /\ buffer' = IF "buffer" \in w THEN [ i \in {BufferSizeOf(bits, c) - 1} |-> {} ]
                                          ELSE buffer
           /\ call' = [ op |-> "create", bitsPerItem |-> bits, count |-> c,
                        a |-> a, writes |-> w ]
  /\ UNCHANGED <<status, reference, heap, plain>>

\* a1->buffer[i] = a2->buffer[i] = rand() for every cell; the harness has
\* allocated and filled v1 and v2 meanwhile, so the heap has changed too
Fill ==
  /\ status = "created"
  /\ \E seed \in Seeds :
       \E b \in { [ w \in DOMAIN buffer |-> Rand(seed, w) ] },
          h \in { Rand(seed, BufferSizeOf(bitsPerItem, count)) } :
         /\ buffer' = b
         /\ reference' = b
         /\ heap' = h
         /\ plain' = Decoded(b, h, bitsPerItem, count)
  /\ status' = "filled"
  /\ call' = [ op |-> "fill" ]
  /\ UNCHANGED <<bitsPerItem, count>>

\* PackedArray_destroy of both arrays
Destroy ==
  /\ status # "none"
  /\ status' = "none"
  /\ bitsPerItem' = 0
  /\ count' = 0
  /\ buffer' = << >>
  /\ reference' = << >>
  /\ heap' = {}
  /\ plain' = << >>
  /\ call' = NoCall

\* PackedArray_pack(a1, offset, v1, n); PackedArray_pack_reference(a2, offset, v1, n),
\* with v1 drawn by one of the given seeds
PackCall(seeds) ==
  \E r \in Requests(count), seed \in seeds :
    \E in \in { [ k \in 1 .. r[2] |-> V1(seed, k, bitsPerItem) ] } :
      \E p \in { PackedArray_pack(buffer, heap, bitsPerItem, r[1], in, r[2]) },
         q \in { PackedArray_pack_reference(reference, heap, bitsPerItem, r[1], in, r[2]) } :
        /\ buffer' = p.buf
        /\ reference' = q.buf
        /\ plain' = Assigned(plain, r[1], in, r[2])
        /\ call' = [ op |-> "pack", offset |-> r[1], count |-> r[2], in |-> in,
                     out |-> << >>, outReference |-> << >>,
                     before |-> buffer, twins |-> (buffer = reference),
                     touched |-> p.touched, touchedReference |-> q.touched,
                     consumed |-> p.consumed, asserted |-> p.asserted ]
        /\ UNCHANGED <<bitsPerItem, count, heap>>

\* PackedArray_set(a1, offset, v1); PackedArray_pack_reference(a2, offset, &v1, 1)
SetCall ==
  \E offset \in 0 .. count - 1, seed \in Seeds :
    \E in \in { << V1(seed, 1, bitsPerItem) >> } :
      \E p \in { PackedArray_set(buffer, heap, bitsPerItem, offset, in[1]) },
         q \in { PackedArray_pack_reference(reference, heap, bitsPerItem, offset, in, 1) } :
        /\ buffer' = p.buf
        /\ reference' = q.buf
        /\ plain' = Assigned(plain, offset, in, 1)
        /\ call' = [ op |-> "set", offset |-> offset, count |-> 1, in |-> in,
                     out |-> << >>, outReference |-> << >>,
                     before |-> buffer, twins |-> (buffer = reference),
                     touched |-> p.touched, touchedReference |-> q.touched,
                     consumed |-> 1, asserted |-> TRUE ]
        /\ UNCHANGED <<bitsPerItem, count, heap>>

\* the values handed to PackedArray_set when the caller does not keep to
\* bitsPerItem bits: one that fits, and the same with one bit more, just
\* above the item or at the top of the word
SetValues(seed, bits) ==
  {V1(seed, 1, bits)} \cup { V1(seed, 1, bits) \cup {b} : b \in {bits, 31} \cap (bits .. 31) }

\* faulty variant of SetAssert: the assertion is compiled out
SetAssertOff(bits, in) == TRUE

\* PACKEDARRAY_ASSERT(0 == (~mask & in)), assertions being enabled: TRUE
\* when it holds
SetAssert(bits, in) == And(Not(MaskOf(bits)), in) = {}

\* PackedArray_set(a1, offset, v) with assertions enabled: the assertion
\* comes before the stores, and a failed assertion aborts the program
SetAnyCall ==
  \E offset \in { o \in 0 .. count - 1 : o <= MaxOffset }, seed \in Seeds :
    \E v \in SetValues(seed, bitsPerItem) :
      \E ok \in { SetAssert(bitsPerItem, v) } :
        \E p \in { IF ok THEN PackedArray_set(buffer, heap, bitsPerItem, offset, v)
                         ELSE [ buf |-> buffer, touched |-> {} ] } :
          /\ buffer' = p.buf
          /\ status' = IF ok THEN "called" ELSE "aborted"
          /\ plain' = IF ok THEN Assigned(plain, offset, << v >>, 1) ELSE plain
          /\ call' = [ op |-> "set", offset |-> offset, count |-> 1, in |-> << v >>,
                       out |-> << >>, before |-> buffer,
                       touched |-> p.touched, consumed |-> 1, asserted |-> ok ]
          /\ UNCHANGED <<bitsPerItem, count, reference, heap>>

\* the item spans 2 buffer cells: !(bitsPerItem <= bitsAvailable)
Spans(bits, offset) == bits > 32 - StartBitOf(offset, bits)

\* the buffer cells PackedArray_set reads and writes for item offset
CellsOf(bits, offset) ==
  {CellOf(offset, bits)} \cup (IF Spans(bits, offset) THEN {CellOf(offset, bits) + 1} ELSE {})

\* faulty variant of SetWord0: the bits of the item are not cleared first
SetWord0Plain(word, bits, offset, in) == Or(word, Shl(in, StartBitOf(offset, bits)))

\* the word PackedArray_set stores in out[0], word being the out[0] it read:
\* (out[0] & ~(mask << startBit)) | (in << startBit)
SetWord0(word, bits, offset, in) ==
  Or(And(word, Not(Shl(MaskOf(bits), StartBitOf(offset, bits)))),
     Shl(in, StartBitOf(offset, bits)))

\* the word PackedArray_set stores in out[1], word being the out[1] it read:
\* (out[1] & ~(mask >> (32 - startBit))) | (in >> bitsAvailable)
SetWord1(word, bits, offset, in) ==
  Or(And(word, Not(Shr(MaskOf(bits), 32 - StartBitOf(offset, bits)))),
     Shr(in, 32 - StartBitOf(offset, bits)))

\* two threads enter PackedArray_set(a1, o1, v1[0]) and
\* PackedArray_set(a1, o2, v1[1]), o1 and o2 different items with a buffer
\* cell in common; nothing in PackedArray_set orders the two calls
SetsBegin ==
  /\ status = "filled"
  /\ count <= SeqCount
  /\ \E o1 \in 0 .. count - 1, o2 \in 0 .. count - 1, seed \in Seeds :
       /\ o1 < o2
       /\ CellsOf(bitsPerItem, o1) \cap CellsOf(bitsPerItem, o2) # {}
       /\ call' = [ op |-> "sets", before |-> buffer, overlapped |-> FALSE,
                    thread |-> << [ offset |-> o1, in |-> V1(seed, 1, bitsPerItem),
                                    pc |-> "load0", tmp |-> {} ],
                                  [ offset |-> o2, in |-> V1(seed, 2, bitsPerItem),
                                    pc |-> "load0", tmp |-> {} ] >> ]
  /\ status' = "racing"
  /\ UNCHANGED <<bitsPerItem, count, buffer, reference, heap, plain>>

\* one step of thread t within PackedArray_set: the read of out[0], the
\* store to out[0] and, for an item that spans 2 cells, the read of and the
\* store to out[1]; a plain uint32_t is read and written in separate steps
SetsStep(t) ==
  /\ status = "racing"
  /\ call.thread[t].pc # "done"
  /\ LET th == call.thread[t]
         cell == CellOf(th.offset, bitsPerItem)
         pc == IF th.pc = "load0" THEN "store0"
               ELSE IF th.pc = "store0"
                    THEN (IF Spans(bitsPerItem, th.offset) THEN "load1" ELSE "done")
                    ELSE IF th.pc = "load1" THEN "store1" ELSE "done"
         tmp == IF th.pc = "load0" THEN Load(buffer, heap, cell)
                ELSE IF th.pc = "load1" THEN Load(buffer, heap, cell + 1)
                     ELSE th.tmp
     IN  /\ buffer' =
              IF th.pc = "store0"
              THEN Store(buffer, cell, SetWord0(th.tmp, bitsPerItem, th.offset, th.in))
              ELSE IF th.pc = "store1"
                   THEN Store(buffer, cell + 1,
                              SetWord1(th.tmp, bitsPerItem, th.offset, th.in))
                   ELSE buffer
         /\ call' = [ call EXCEPT
                        !.thread[t].pc = pc,
                        !.thread[t].tmp = tmp,
                        !.overlapped = call.overlapped
                          \/ (th.pc = "load0" /\ call.thread[3 - t].pc \notin {"load0", "done"}) ]
         /\ status' = IF pc = "done" /\ call.thread[3 - t].pc = "done"
                      THEN "called" ELSE "racing"
  /\ UNCHANGED <<bitsPerItem, count, reference, heap, plain>>

\* PackedArray_unpack(a1, offset, v2, n); PackedArray_unpack_reference(a2, offset, v2, n)
UnpackCall ==
  \E r \in Requests(count) :
    \E p \in { PackedArray_unpack(buffer, heap, bitsPerItem, r[1], r[2]) },
       q \in { PackedArray_unpack_reference(reference, heap, bitsPerItem, r[1], r[2]) } :
      /\ call' = [ op |-> "unpack", offset |-> r[1], count |-> r[2], in |-> << >>,
                   out |-> p.out, outReference |-> q.out,
                   before |-> buffer, twins |-> (buffer = reference),
                   touched |-> p.touched, touchedReference |-> q.touched,
                   consumed |-> 0, asserted |-> p.asserted ]
      /\ UNCHANGED <<bitsPerItem, count, buffer, reference, heap, plain>>

\* faulty variant of the get call: the item read is cleared in the buffer
GetCallClearing ==
  \E offset \in 0 .. count - 1 :
    \E p \in { PackedArray_get(buffer, heap, bitsPerItem, offset) },
       q \in { PackedArray_unpack_reference(reference, heap, bitsPerItem, offset, 1) } :
      /\ call' = [ op |-> "get", offset |-> offset, count |-> 1, in |-> << >>,
                   out |-> << p.out >>, outReference |-> q.out,
                   before |-> buffer, twins |-> (buffer = reference),
                   touched |-> p.touched, touchedReference |-> q.touched,
                   consumed |-> 0, asserted |-> TRUE ]
      /\ buffer' = PackedArray_set(buffer, heap, bitsPerItem, offset, {}).buf
      /\ UNCHANGED <<bitsPerItem, count, reference, heap, plain>>

\* v2 = PackedArray_get(a, offset); PackedArray_unpack_reference(a2, offset, &v2, 1)
GetCall ==
  \E offset \in 0 .. count - 1 :
    \E p \in { PackedArray_get(buffer, heap, bitsPerItem, offset) },
       q \in { PackedArray_unpack_reference(reference, heap, bitsPerItem, offset, 1) } :
      /\ call' = [ op |-> "get", offset |-> offset, count |-> 1, in |-> << >>,
                   out |-> << p.out >>, outReference |-> q.out,
                   before |-> buffer, twins |-> (buffer = reference),
                   touched |-> p.touched, touchedReference |-> q.touched,
                   consumed |-> 0, asserted |-> TRUE ]
      /\ UNCHANGED <<bitsPerItem, count, buffer, reference, heap, plain>>

\* the harness makes one call on freshly filled twin buffers
Fresh == status = "filled" /\ status' = "called"

Pack == Fresh /\ PackCall(Seeds)

Set == Fresh /\ SetCall

Unpack == Fresh /\ UnpackCall

Get == Fresh /\ GetCall

Next == Create \/ Fill \/ Pack \/ Set \/ Unpack \/ Get \/ Destroy

Spec == Init /\ [][Next]_vars

\* a small array takes one more write, after any writes before it
Again ==
  /\ status \in {"filled", "called"}
  /\ count <= SeqCount
  /\ status' = "called"

\* the seed of the values packed into a small array; PackedArray_set still
\* writes values of both seeds over them
SeqSeeds == {0}

SeqPack == Again /\ PackCall(SeqSeeds)

SeqSet == Again /\ SetCall

SeqNext == Create \/ Fill \/ SeqPack \/ SeqSet \/ Destroy

SeqSpec == Init /\ [][SeqNext]_vars

\* PackedArray_bufferSize(a1)
SizeCall ==
  /\ call' = [ op |-> "bufferSize", before |-> buffer,
               size |-> PackedArray_bufferSize(bitsPerItem, ToBits(count)) ]
  /\ UNCHANGED <<bitsPerItem, count, buffer, reference, heap, plain>>

\* a small array takes one more call of any kind, after any calls before it
Live ==
  /\ status \in {"filled", "called"}
  /\ count <= CallCount
  /\ status' = "called"

LivePack == Live /\ PackCall(SeqSeeds)

LiveSet == Live /\ SetCall

LiveUnpack == Live /\ UnpackCall

LiveGet == Live /\ GetCall

LiveSize == Live /\ SizeCall

CallsNext ==
  Create \/ Fill \/ LivePack \/ LiveSet \/ LiveUnpack \/ LiveGet \/ LiveSize \/ Destroy

\* calls of every kind following each other on the same small arrays
CallsSpec == Init /\ [][CallsNext]_vars

CreateNext == Create \/ CreateFails \/ Destroy

\* PackedArray_create, the allocation succeeding or failing
CreateSpec == Init /\ [][CreateNext]_vars

SetAny == status = "filled" /\ SetAnyCall

AssertNext == Create \/ Fill \/ SetAny \/ Destroy

\* PackedArray_set with values that fit bitsPerItem bits and values that do
\* not, assertions enabled
AssertSpec == Init /\ [][AssertNext]_vars

SetsNext == Create \/ Fill \/ SetsBegin \/ SetsStep(1) \/ SetsStep(2) \/ Destroy

\* two threads in PackedArray_set on the same array, their steps in any
\* order
SetsSpec == Init /\ [][SetsNext]_vars

\* the item counts of the requests that reach the whole-cycle loop, as
\* uint32_t: small ones, and the large ones around 2^31 and 2^32
BatchRequests ==
  { ToBits(n) : n \in {1, 31, 32, 33, 64, MaxCount} }
    \cup { {26}, {30}, (0 .. 30) \ (0 .. 4), {31}, {31} \cup {0, 1, 2},
           Bit \ (0 .. 4), Bit }

\* the arithmetic of a bulk call on count items from an item at offset
\* o in its cycle, the request being within a uint32_t count of items
Batch ==
  /\ status = "none"
  /\ \E o \in 0 .. 31, c \in BatchRequests, build \in SignedOverflow :
       /\ AtLeastOneCycle(c, o)
       /\ \A b \in Add64(c, ToBits(o)) : b <= 31
       /\ \E r \in { BatchCounts(c, o, build) } :
            call' = [ op |-> "batch", offset |-> o, count |-> c, build |-> build,
                      n |-> r.n, overflow |-> r.overflow, trapped |-> r.trapped,
                      done |-> r.done, remaining |-> r.count ]
  /\ status' = "batched"
  /\ UNCHANGED <<bitsPerItem, count, buffer, reference, heap, plain>>

BatchNext == Batch \/ Destroy

\* the whole-cycle arithmetic of the bulk calls over the requests of
\* BatchRequests
BatchSpec == Init /\ [][BatchNext]_vars

\* the offsets of the calls with count == 0: any item, and one past the last
EmptyOffsets(c) == { o \in 0 .. c : o <= MaxOffset }

\* PackedArray_pack(a1, offset, v1, 0); PackedArray_pack_reference(a2, offset, v1, 0):
\* v1 holds no element, and a read of *in finds whatever the heap holds
PackNone ==
  /\ Fresh
  /\ \E offset \in EmptyOffsets(count) :
       \E p \in { PackedArray_pack(buffer, heap, bitsPerItem, offset, << >>, 0) },
          q \in { PackedArray_pack_reference(reference, heap, bitsPerItem, offset, << >>, 0) } :
         /\ buffer' = p.buf
         /\ reference' = q.buf
         /\ call' = [ op |-> "pack", offset |-> offset, count |-> 0, in |-> << >>,
                      out |-> << >>, outReference |-> << >>,
                      before |-> buffer, twins |-> (buffer = reference),
                      touched |-> p.touched, touchedReference |-> q.touched,
                      consumed |-> p.consumed, consumedReference |-> q.consumed,
                      asserted |-> p.asserted ]
  /\ UNCHANGED <<bitsPerItem, count, heap, plain>>

\* PackedArray_unpack(a1, offset, v2, 0); PackedArray_unpack_reference(a2, offset, v2, 0)
UnpackNone ==
  /\ Fresh
  /\ \E offset \in EmptyOffsets(count) :
       \E p \in { PackedArray_unpack(buffer, heap, bitsPerItem, offset, 0) },
          q \in { PackedArray_unpack_reference(reference, heap, bitsPerItem, offset, 0) } :
         /\ call' = [ op |-> "unpack", offset |-> offset, count |-> 0, in |-> << >>,
                      out |-> p.out, outReference |-> q.out,
                      before |-> buffer, twins |-> (buffer = reference),
                      touched |-> p.touched, touchedReference |-> q.touched,
                      consumed |-> 0, consumedReference |-> 0,
                      asserted |-> p.asserted ]
  /\ UNCHANGED <<bitsPerItem, count, buffer, reference, heap, plain>>

EmptyNext == Create \/ Fill \/ PackNone \/ UnpackNone \/ Destroy

\* the calls with count == 0, one on each freshly filled pair of arrays
EmptySpec == Init /\ [][EmptyNext]_vars

\* the widths of size_t of the builds: 32 bits (armv7) and 64 bits
SizeTBits == {32, 64}

\* the counts PackedArray_bufferSize is asked about, as uint32_t: small
\* ones, and the large ones at which a product or a sum reaches 2^32
SizeCounts ==
  { ToBits(n) : n \in {0, 1, 2, 3, 10, 66} }
    \cup { {27}, {29}, {30}, {30} \cup ToBits(1), {31}, Bit \ {0}, Bit }

\* a1 = PackedArray_create(bits, c), the allocation succeeding, then
\* PackedArray_bufferSize(a1), on a build whose size_t is w bits wide
BufferSize ==
  /\ status = "none"
  /\ \E bits \in 1 .. 32, c \in SizeCounts, w \in SizeTBits :
       \E size \in { PackedArray_bufferSize(bits, c) },
          malloc \in { MallocSize(bits, c, w) } :
         call' = [ op |-> "bufferSize", bitsPerItem |-> bits, count |-> c,
                   sizeT |-> w, size |-> size, malloc |-> malloc,
                   allocated |-> CellsAllocated(malloc),
                   zeroed |-> CreateZeroIndex(bits, c) ]
  /\ status' = "sized"
  /\ UNCHANGED <<bitsPerItem, count, buffer, reference, heap, plain>>

SizeNext == BufferSize \/ Destroy

\* PackedArray_bufferSize over the widths and the counts of SizeCounts
SizeSpec == Init /\ [][SizeNext]_vars

\* the values whose width is computed: zero, each power of two and each
\* value with every bit up to one position set (131071 is 0 .. 16)
WidthValues == {{}} \cup { {b} : b \in Bit } \cup { 0 .. b : b \in Bit }

\* the arrays whose width is computed: one value of WidthValues, or the
\* first n values the harness masks to bits bits
WidthInputs ==
  { <<v>> : v \in WidthValues }
    \cup { [ i \in 1 .. n |-> V1(seed, i, bits) ] :
             n \in 0 .. MaxIn, seed \in Seeds, bits \in 1 .. 32 }

\* PackedArray_computeBitsPerItem(in, count), on both builds
ComputeBitsPerItem ==
  /\ status = "none"
  /\ \E in \in WidthInputs :
       \E r \in { PackedArray_computeBitsPerItem(in, Len(in), "builtin") },
          q \in { PackedArray_computeBitsPerItem(in, Len(in), "log2") } :
         call' = [ op |-> "computeBitsPerItem", in |-> in, count |-> Len(in),
                   builtin |-> r, log2 |-> q ]
  /\ status' = "computed"
  /\ UNCHANGED <<bitsPerItem, count, buffer, reference, heap, plain>>

WidthNext == ComputeBitsPerItem \/ Destroy

\* PackedArray_computeBitsPerItem over the arrays of WidthInputs
WidthSpec == Init /\ [][WidthNext]_vars

\* the requests whose generic loop is followed one iteration at a time
LoopRequests(c) ==
  { r \in (0 .. c - 1) \X (1 .. MaxLoop) : r[1] + r[2] <= c /\ r[1] <= MaxOffset }

\* PackedArray_pack_reference(a2, offset, v1, n) or
\* PackedArray_unpack_reference(a2, offset, v2, n) up to the while loop
LoopBegin ==
  /\ status = "filled"
  /\ \E r \in LoopRequests(count), seed \in Seeds :
       \E in \in { [ k \in 1 .. r[2] |-> V1(seed, k, bitsPerItem) ] } :
         \/ \E s \in { PackReferenceStart(reference, heap, bitsPerItem, r[1], r[2]) } :
              call' = [ op |-> "pack_reference", offset |-> r[1], count |-> r[2],
                        in |-> in, s |-> s, startBit |-> s.startBit,
                        bitsAvailable |-> s.bitsAvailable,
                        taken |-> "none", shifts |-> {} ]
         \/ /\ seed = 0
            /\ \E s \in { UnpackReferenceStart(reference, heap, bitsPerItem, r[1], r[2]) } :
                 call' = [ op |-> "unpack_reference", offset |-> r[1], count |-> r[2],
                           in |-> << >>, s |-> s, startBit |-> s.startBit,
                           bitsAvailable |-> s.bitsAvailable,
                           taken |-> "none", shifts |-> {} ]
  /\ status' = "looping"
  /\ UNCHANGED <<bitsPerItem, count, buffer, reference, heap, plain>>

\* one iteration of while (count--): call.startBit and call.bitsAvailable
\* keep the cursor the iteration was entered with
LoopStep ==
  /\ status = "looping"
  /\ call.s.count # 0
  /\ \E s \in { IF call.op = "pack_reference"
                 THEN PackReferenceStep([ call.s EXCEPT !.count = call.s.count - 1 ],
                                        heap, bitsPerItem, MaskOf(bitsPerItem),
                                        InAt(call.in, heap, call.s.next))
                 ELSE UnpackReferenceStep([ call.s EXCEPT !.count = call.s.count - 1 ],
                                          reference, heap, bitsPerItem,
                                          MaskOf(bitsPerItem)) } :
       /\ call' = [ call EXCEPT !.s = s,
                                !.startBit = call.s.startBit,
                                !.bitsAvailable = call.s.bitsAvailable,
                                !.taken = ReferenceBranch(call.s, bitsPerItem),
                                !.shifts = ReferenceShifts(call.s, bitsPerItem) ]
       /\ reference' = IF call.op = "pack_reference" THEN s.buf ELSE reference
  /\ UNCHANGED <<status, bitsPerItem, count, buffer, heap, plain>>

\* the loop is left: *out = packed of PackedArray_pack_reference
LoopEnd ==
  /\ status = "looping"
  /\ call.s.count = 0
  /\ reference' = IF call.op = "pack_reference"
                  THEN Store(call.s.buf, call.s.out, call.s.packed)
                  ELSE reference
  /\ status' = "called"
  /\ UNCHANGED <<bitsPerItem, count, buffer, heap, plain, call>>

\* PackedArray_set(a1, offset, v1) or PackedArray_get(a1, offset), with the
\* shifts it executes
ItemCall ==
  /\ status = "filled"
  /\ \E offset \in { o \in 0 .. count - 1 : o <= MaxOffset }, seed \in Seeds :
       \E shifts \in { ItemShifts(bitsPerItem, offset) } :
         \/ \E p \in { PackedArray_set(buffer, heap, bitsPerItem, offset,
                                       V1(seed, 1, bitsPerItem)) } :
              /\ buffer' = p.buf
              /\ call' = [ op |-> "set", offset |-> offset, count |-> 1,
                           startBit |-> StartBitOf(offset, bitsPerItem),
                           shifts |-> shifts ]
         \/ /\ seed = 0
            /\ \E p \in { PackedArray_get(buffer, heap, bitsPerItem, offset) } :
                 /\ buffer' = buffer
                 /\ call' = [ op |-> "get", offset |-> offset, count |-> 1,
                              startBit |-> StartBitOf(offset, bitsPerItem),
                              out |-> p.out, shifts |-> shifts ]
  /\ status' = "called"
  /\ UNCHANGED <<bitsPerItem, count, reference, heap, plain>>

\* PackedArray_unpack(a1, offset, v2, n): the shifts of the cases it runs
\* through, case offset % 32 first
CasesCall ==
  /\ status = "filled"
  /\ \E r \in LoopRequests(count) \cup { q \in {<< 0, 32 >>} : count >= 32 } :
       \E p \in { PackedArray_unpack(buffer, heap, bitsPerItem, r[1], r[2]) } :
         call' = [ op |-> "cases", offset |-> r[1], count |-> r[2], out |-> p.out,
                   shifts |-> UNION { CaseShifts((r[1] + k) % 32, bitsPerItem) :
                                        k \in 0 .. r[2] - 1 } ]
  /\ status' = "called"
  /\ UNCHANGED <<bitsPerItem, count, buffer, reference, heap, plain>>

LoopNext ==
  \/ Create
  \/ Fill
  \/ LoopBegin
  \/ LoopStep
  \/ LoopEnd
  \/ ItemCall
  \/ CasesCall
  \/ Destroy

\* the generic loops one iteration at a time, and the shifts of every step
LoopSpec == Init /\ [][LoopNext]_vars

\* the offsets the cursor is computed for, as uint32_t: those of the calls
\* above, and large ones whose product with bitsPerItem passes 2^32
CursorOffsets ==
  { ToBits(n) : n \in 0 .. MaxOffset }
    \cup { {27}, {27} \cup ToBits(5), {30} \cup ToBits(3), {31}, Bit \ {0}, Bit }

\* the first statements of PackedArray_set, PackedArray_get and of the per
\* width functions: the cell, the start bit and the mask of item offset
Cursor ==
  /\ status = "none"
  /\ \E bits \in 1 .. 32, offset \in CursorOffsets :
       \E cell \in { CursorCell(offset, bits) },
          startBit \in { CursorStartBit(offset, bits) } :
         call' = [ op |-> "cursor", bitsPerItem |-> bits, offset |-> offset,
                   cell |-> cell, startBit |-> startBit,
                   mask |-> MaskOf(bits), implMask |-> PACKEDARRAY_IMPL_MASK(bits) ]
  /\ status' = "located"
  /\ UNCHANGED <<bitsPerItem, count, buffer, reference, heap, plain>>

CursorNext == Cursor \/ Destroy

\* the bit cursor over the widths and the offsets of CursorOffsets
CursorSpec == Init /\ [][CursorNext]_vars

\* ------------------------------------------------------------ the properties

\* the first and one past the last global bit of the items a call wrote
FirstBit == call.offset * bitsPerItem

EndBit == (call.offset + call.count) * bitsPerItem

\* the bits of cell w outside the items the call wrote
Outside(w) == { b \in Bit : 32 * w + b < FirstBit \/ 32 * w + b >= EndBit }

\* no bit of the buffer outside the items the call wrote differs from its
\* value before the call
FrameKept ==
  /\ DOMAIN buffer = DOMAIN call.before
  /\ \A w \in DOMAIN buffer :
       IF 32 * w + 31 < FirstBit \/ 32 * w >= EndBit
       THEN buffer[w] = call.before[w]
       ELSE And(buffer[w], Outside(w)) = And(call.before[w], Outside(w))

\* the first item of the call spans two buffer cells
Straddles == StartBitOf(call.offset, bitsPerItem) + bitsPerItem > 32

\* C1: on twin arrays of identical content, PackedArray_pack and
\* PackedArray_pack_reference of the same fitting values at the same offset
\* leave the two whole buffers identical, cell for cell
PackEqualsReference ==
  (call.op = "pack" /\ call.twins) => buffer = reference

\* a pack on twins that runs two full cycles of 32 items and a tail, with a
\* width that makes items span cells, and changes the buffer
PackEqualsReferenceWitness ==
  /\ call.op = "pack" /\ call.twins
  /\ (call.count + (call.offset % 32)) \div 32 = 2
  /\ (call.count + call.offset) % 32 # 0
  /\ 32 % bitsPerItem # 0
  /\ buffer # call.before
  /\ buffer = reference

\* C2: PackedArray_pack(a, offset, values, n) followed by
\* PackedArray_unpack(a, offset, out, n) yields out = values, whatever the
\* buffer held before
PackThenUnpack ==
  call.op = "pack" =>
    PackedArray_unpack(buffer, heap, bitsPerItem, call.offset, call.count).out
      = call.in

\* a pack of more than a cycle of 32 bit items that replaced other values
PackThenUnpackWitness ==
  /\ call.op = "pack"
  /\ bitsPerItem = 32
  /\ call.count > 32
  /\ PackedArray_unpack(call.before, heap, bitsPerItem, call.offset, call.count).out
       # call.in
  /\ PackedArray_unpack(buffer, heap, bitsPerItem, call.offset, call.count).out
       = call.in

\* C3: on the same buffer content, PackedArray_unpack and
\* PackedArray_unpack_reference write exactly the same n output values
UnpackEqualsReference ==
  (call.op = "unpack" /\ call.twins) =>
    /\ Len(call.out) = call.count
    /\ call.out = call.outReference

\* an unpack that starts at the last item of a cycle, runs two full cycles
\* and a tail, with items that span cells
UnpackEqualsReferenceWitness ==
  /\ call.op = "unpack" /\ call.twins
  /\ call.offset % 32 = 31
  /\ call.count > 33
  /\ 32 % bitsPerItem # 0
  /\ call.out = call.outReference
  /\ \E k \in DOMAIN call.out : call.out[k] # {}

\* C4: after any sequence of PackedArray_set and PackedArray_pack calls the
\* array decodes, by PackedArray_get item by item and by PackedArray_unpack
\* of the whole, to the plain array with the same writes: each item holds
\* the value last written to it, or the value it decoded to before
PlainArray ==
  status = "called" =>
    /\ Decoded(buffer, heap, bitsPerItem, count) = plain
    /\ PackedArray_unpack(buffer, heap, bitsPerItem, 0, count).out
         = [ k \in 1 .. count |-> plain[k - 1] ]

\* a set of an item that spans two cells, over a value an earlier pack of
\* both items wrote, the other item still holding what that pack wrote
PlainArrayWitness ==
  /\ status = "called" /\ call.op = "set"
  /\ count = 2 /\ call.offset = 1 /\ Straddles
  /\ \A seed \in Seeds : call.before # [ w \in DOMAIN buffer |-> Rand(seed, w) ]
  /\ PackedArray_get(call.before, heap, bitsPerItem, 1).out = V1(0, 2, bitsPerItem)
  /\ plain[0] = V1(0, 1, bitsPerItem) /\ plain[1] = V1(1, 1, bitsPerItem)
  /\ plain[0] # plain[1]
  /\ Decoded(buffer, heap, bitsPerItem, count) = plain

\* C5: PackedArray_pack changes no bit of the buffer outside the global bit
\* range [offset * B, (offset + n) * B): the bits below the first item, the
\* bits above the last item (padding included) and every other cell are kept
PackFrame ==
  call.op = "pack" => FrameKept

\* a pack that starts and ends inside cells, ends the array short of the
\* end of the last cell, changes the buffer and leaves padding bits set
PackFrameWitness ==
  /\ call.op = "pack"
  /\ FirstBit % 32 # 0 /\ EndBit % 32 # 0
  /\ call.offset + call.count = count
  /\ call.count > 1
  /\ buffer # call.before
  /\ \E b \in Outside(BufferSizeOf(bitsPerItem, count) - 1) :
       b >= EndBit % 32 /\ b \in buffer[BufferSizeOf(bitsPerItem, count) - 1]
  /\ FrameKept

\* C6: PackedArray_set(a, i, v) changes no bit of the buffer outside
\* [i * B, (i + 1) * B), whether the item lies in one cell or spans two, and
\* every other item decodes to the same value before and after
SetFrame ==
  call.op = "set" =>
    /\ FrameKept
    /\ \A j \in (0 .. count - 1) \ {call.offset} :
         PackedArray_get(buffer, heap, bitsPerItem, j).out
           = PackedArray_get(call.before, heap, bitsPerItem, j).out

\* a set of an item that spans two cells and has neighbours on both sides
SetFrameWitness ==
  /\ call.op = "set" /\ Straddles
  /\ call.offset > 0 /\ call.offset < count - 1
  /\ buffer[CellOf(call.offset, bitsPerItem)]
       # call.before[CellOf(call.offset, bitsPerItem)]
  /\ buffer[CellOf(call.offset, bitsPerItem) + 1]
       # call.before[CellOf(call.offset, bitsPerItem) + 1]
  /\ FrameKept

\* C7: PackedArray_set(a, i, v) followed by PackedArray_get(a, i) returns v,
\* for every width up to 32 and whether or not the item spans two cells
SetThenGet ==
  call.op = "set" =>
    PackedArray_get(buffer, heap, bitsPerItem, call.offset).out = call.in[1]

\* a set of an item spanning two cells that held another value
SetThenGetWitness ==
  /\ call.op = "set" /\ Straddles
  /\ PackedArray_get(call.before, heap, bitsPerItem, call.offset).out # call.in[1]
  /\ Shr(call.in[1], 32 - StartBitOf(call.offset, bitsPerItem)) # {}
  /\ PackedArray_get(buffer, heap, bitsPerItem, call.offset).out = call.in[1]

\* C8: PackedArray_set(a, j, value) and PackedArray_pack(a, j, &value, 1)
\* produce identical buffers from identical buffers, and a set of the same
\* value after such a pack leaves the buffer unchanged
SetEqualsPack ==
  /\ call.op = "set" =>
       buffer = PackedArray_pack(call.before, heap, bitsPerItem,
                                 call.offset, call.in, 1).buf
  /\ (call.op = "pack" /\ call.count = 1) =>
       /\ buffer = PackedArray_set(call.before, heap, bitsPerItem,
                                   call.offset, call.in[1]).buf
       /\ PackedArray_set(buffer, heap, bitsPerItem,
                          call.offset, call.in[1]).buf = buffer

\* a pack of one item that spans two cells, starts a cycle of 32 items again
\* and changes both cells
SetEqualsPackWitness ==
  /\ call.op = "pack" /\ call.count = 1 /\ Straddles
  /\ call.offset > 32
  /\ buffer[CellOf(call.offset, bitsPerItem)]
       # call.before[CellOf(call.offset, bitsPerItem)]
  /\ buffer[CellOf(call.offset, bitsPerItem) + 1]
       # call.before[CellOf(call.offset, bitsPerItem) + 1]
  /\ PackedArray_set(buffer, heap, bitsPerItem, call.offset, call.in[1]).buf = buffer

\* C9: PackedArray_get(a, i) and PackedArray_unpack(a, i, &value, 1) return
\* the same value, whatever the buffer holds
GetEqualsUnpack ==
  call.op = "get" =>
    PackedArray_unpack(buffer, heap, bitsPerItem, call.offset, 1).out = call.out

\* a get of an item that spans two cells and has bits set in both
GetEqualsUnpackWitness ==
  /\ call.op = "get" /\ Straddles
  /\ Shr(call.out[1], 32 - StartBitOf(call.offset, bitsPerItem)) # {}
  /\ And(call.out[1], MaskOf(32 - StartBitOf(call.offset, bitsPerItem))) # {}
  /\ PackedArray_unpack(buffer, heap, bitsPerItem, call.offset, 1).out = call.out

\* C10: after PackedArray_set or PackedArray_pack has written value v to
\* item i, bit k of v is bit (i * B + k) mod 32 of buffer cell
\* (i * B + k) div 32, for every k below B
BitLayout ==
  call.op \in {"set", "pack"} =>
    \A j \in 1 .. call.count : \A k \in 0 .. bitsPerItem - 1 :
      LET g == (call.offset + j - 1) * bitsPerItem + k
      IN  (k \in call.in[j]) <=> ((g % 32) \in buffer[g \div 32])

\* a pack across a cycle of 32 items with items that span cells, whose
\* second value has bits set and bits clear
BitLayoutWitness ==
  /\ call.op = "pack"
  /\ call.offset = 31 /\ call.count = 2
  /\ 32 % bitsPerItem # 0
  /\ call.in[2] # {} /\ call.in[2] # MaskOf(bitsPerItem)
  /\ \A k \in 0 .. bitsPerItem - 1 :
       (k \in call.in[2]) <=>
         (((32 * bitsPerItem + k) % 32) \in buffer[(32 * bitsPerItem + k) \div 32])

\* C11: PackedArray_pack and PackedArray_unpack with count == 0 are no-ops
\* at every offset, in the generic and in the per-width engine: no buffer
\* cell changes, no input is read, no output is written, no assertion fails
EmptyCallIsNoOp ==
  (call.op \in {"pack", "unpack"} /\ call.count = 0) =>
    /\ buffer = call.before
    /\ reference = call.before
    /\ call.consumed = 0 /\ call.consumedReference = 0
    /\ call.out = << >> /\ call.outReference = << >>
    /\ call.asserted

\* C11, the generic engine alone: with count == 0 it changes no cell, reads
\* no input and writes no output
EmptyReferenceCallIsNoOp ==
  (call.op \in {"pack", "unpack"} /\ call.count = 0) =>
    /\ reference = call.before
    /\ call.consumedReference = 0
    /\ call.outReference = << >>

\* the value of bits lo .. hi of x, as an integer
RECURSIVE Value(_, _, _)
Value(x, lo, hi) ==
  IF hi < lo THEN 0
  ELSE 2 * Value(x, lo + 1, hi) + (IF lo \in x THEN 1 ELSE 0)

\* ceil(n / 32) of an integer n
Ceil32(n) == (n \div 32) + (IF n % 32 = 0 THEN 0 ELSE 1)

\* size is ceil(bits * c / 32): with c = h * 2^16 + l the ceiling is
\* bits * h * 2^11 + ceil(bits * l / 32), compared in two parts below 2^22
IsCeiling(size, bits, c) ==
  LET high == bits * Value(c, 16, 31)
      low == Ceil32(bits * Value(c, 0, 15))
  IN  /\ Value(size, 11, 31) = high + (low \div 2048)
      /\ Value(size, 0, 10) = low % 2048

\* C12: PackedArray_bufferSize(a) is ceil(bitsPerItem * count / 32) for every
\* width 1..32 and every 32 bit count, and is the number of uint32_t cells
\* PackedArray_create allocated for the buffer
BufferSizeIsAllocated ==
  call.op = "bufferSize" =>
    /\ IsCeiling(call.size, call.bitsPerItem, call.count)
    /\ call.allocated = call.size

\* C12, the value alone: PackedArray_bufferSize(a) is
\* ceil(bitsPerItem * count / 32), and 3 for 10 items of 9 bits
BufferSizeIsCeiling ==
  call.op = "bufferSize" =>
    /\ IsCeiling(call.size, call.bitsPerItem, call.count)
    /\ (call.bitsPerItem = 9 /\ call.count = ToBits(10)) => call.size = ToBits(3)

\* C12, the builds with a 64 bit size_t: the cells allocated are the cells
\* PackedArray_bufferSize reports
BufferSizeIsAllocated64 ==
  (call.op = "bufferSize" /\ call.sizeT = 64) => call.allocated = call.size

\* C13: PackedArray_computeBitsPerItem(in, n) is the smallest b in 1..32
\* with every in[k] < 2^b, 1 for zeros and for n = 0, 17 for [131071], at
\* most B for values masked to B bits, and the same on the build with the
\* compiler's bit scan and on the build with __PackedArray_log2
ComputeBitsPerItemIsSmallest ==
  call.op = "computeBitsPerItem" =>
    /\ call.builtin \in 1 .. 32
    /\ \A k \in 1 .. call.count : \A b \in call.in[k] : b < call.builtin
    /\ call.builtin > 1 => \E k \in 1 .. call.count : (call.builtin - 1) \in call.in[k]
    /\ call.log2 = call.builtin
    /\ (\A k \in 1 .. call.count : call.in[k] = {}) => call.builtin = 1
    /\ call.in = << 0 .. 16 >> => call.builtin = 17
    /\ \A bits \in 1 .. 32 :
         (\A k \in 1 .. call.count : call.in[k] \subseteq MaskOf(bits))
           => call.builtin <= bits

\* three values, the widest of them not the first and its highest bit at
\* position 16 or above, and their width computed on the build with
\* __PackedArray_log2
ComputeBitsPerItemIsSmallestWitness ==
  /\ call.op = "computeBitsPerItem"
  /\ call.count = 3
  /\ call.log2 > 16
  /\ (call.log2 - 1) \notin call.in[1]

\* C14: whatever the buffer holds, every value PackedArray_get returns and
\* every value PackedArray_unpack writes is below 2^bitsPerItem, so
\* PackedArray_computeBitsPerItem over them is at most bitsPerItem
OutputsFit ==
  call.op \in {"get", "unpack"} =>
    /\ \A j \in 1 .. Len(call.out) : call.out[j] \subseteq MaskOf(bitsPerItem)
    /\ PackedArray_computeBitsPerItem(call.out, Len(call.out), "builtin") <= bitsPerItem

\* a read of an item with its highest bit set, from a cell the harness
\* filled with rand() that has bits set above the item
OutputsFitWitness ==
  /\ call.op \in {"get", "unpack"}
  /\ bitsPerItem < 32
  /\ StartBitOf(call.offset, bitsPerItem) + bitsPerItem < 32
  /\ (bitsPerItem - 1) \in call.out[1]
  /\ Shr(buffer[CellOf(call.offset, bitsPerItem)],
         StartBitOf(call.offset, bitsPerItem) + bitsPerItem) # {}
  /\ PackedArray_computeBitsPerItem(call.out, Len(call.out), "log2") = bitsPerItem

\* C15: PackedArray_get, PackedArray_unpack and PackedArray_bufferSize have
\* no side effect on the array: its buffer cells, bitsPerItem and count are
\* after the call what they were before it
ReadsKeepArray ==
  [][call'.op \in {"get", "unpack", "bufferSize"}
       => buffer' = buffer /\ bitsPerItem' = bitsPerItem /\ count' = count]_vars

\* a read of an array whose buffer earlier calls have written, the buffer
\* being what it was before the read
ReadsKeepArrayWitness ==
  /\ call.op \in {"get", "unpack", "bufferSize"}
  /\ call.before = buffer
  /\ \A seed \in Seeds : buffer # [ w \in DOMAIN buffer |-> Rand(seed, w) ]

\* C16: from a successful PackedArray_create(bitsPerItem, count) on, the
\* fields bitsPerItem and count are the creation arguments, bitsPerItem is
\* in 1..32, and no call of pack, unpack, set, get or bufferSize changes
\* either field
FieldsFixed ==
  /\ [](status # "none" => bitsPerItem \in 1 .. 32)
  /\ [](call.op = "create" => bitsPerItem = call.bitsPerItem /\ count = call.count)
  /\ [][(status # "none" /\ status' # "none")
          => bitsPerItem' = bitsPerItem /\ count' = count]_vars

\* an array of one item of 17 bits that has been written and then asked
\* its buffer size, its fields still 17 and 1
FieldsFixedWitness ==
  /\ call.op = "bufferSize"
  /\ bitsPerItem = 17 /\ count = 1
  /\ \A seed \in Seeds : buffer # [ w \in DOMAIN buffer |-> Rand(seed, w) ]

\* C17: when its allocation fails PackedArray_create returns NULL and
\* stores nothing, neither a buffer cell nor bitsPerItem nor count; when it
\* succeeds it returns a handle that is not NULL, with bitsPerItem and count
\* set
CreateChecksAllocation ==
  call.op = "create" =>
    /\ call.a \in Malloc
    /\ call.a = "NULL" =>
         /\ call.writes = {}
         /\ status = "none" /\ bitsPerItem = 0 /\ count = 0 /\ buffer = << >>
    /\ call.a # "NULL" =>
         /\ status = "created"
         /\ bitsPerItem = call.bitsPerItem /\ count = call.count

\* a failed PackedArray_create(9, 66), after which no array exists
CreateChecksAllocationWitness ==
  /\ call.op = "create" /\ call.a = "NULL"
  /\ call.bitsPerItem = 9 /\ call.count = MaxCount
  /\ status = "none"

\* C18: with assertions enabled, PackedArray_set called with a value that
\* has a bit set at or above position bitsPerItem fails its assertion before
\* it stores anything: the buffer is what it was before the call
SetAssertsFirst ==
  (call.op = "set" /\ \E b \in call.in[1] : b >= bitsPerItem) =>
    /\ ~call.asserted
    /\ status = "aborted"
    /\ call.touched = {}
    /\ buffer = call.before

\* a value of 9 bits handed to an array of 8 bit items, at an item whose
\* neighbour the extra bit would have reached
SetAssertsFirstWitness ==
  /\ call.op = "set" /\ bitsPerItem = 8
  /\ 8 \in call.in[1] /\ call.offset = 1 /\ count > 2
  /\ ~call.asserted
  /\ buffer = call.before

\* C19: PackedArray_set reads and writes whole buffer cells in separate
\* steps and nothing orders two calls, so two threads that set two
\* different items with a cell in common can lose one of the values; when
\* one call ends before the other begins, both items hold their values (the
\* buffer is what the two calls one after the other make it)
SerializedSetsKeepBoth ==
  (call.op = "sets" /\ status = "called") =>
    /\ ~call.overlapped =>
         /\ \A t \in 1 .. 2 :
              PackedArray_get(buffer, heap, bitsPerItem, call.thread[t].offset).out
                = call.thread[t].in
         /\ buffer =
              PackedArray_set(
                PackedArray_set(call.before, heap, bitsPerItem,
                                call.thread[1].offset, call.thread[1].in).buf,
                heap, bitsPerItem, call.thread[2].offset, call.thread[2].in).buf
    /\ (\E t \in 1 .. 2 :
          PackedArray_get(buffer, heap, bitsPerItem, call.thread[t].offset).out
            # call.thread[t].in) => call.overlapped

\* both calls have returned and the item the first thread set does not hold
\* the value it wrote: the second thread stored a cell it had read before
\* the first thread's store
SerializedSetsKeepBothWitness ==
  /\ call.op = "sets" /\ status = "called"
  /\ call.overlapped
  /\ PackedArray_get(buffer, heap, bitsPerItem, call.thread[1].offset).out
       # call.thread[1].in
  /\ PackedArray_get(buffer, heap, bitsPerItem, call.thread[2].offset).out
       = call.thread[2].in

\* C20: every call of pack, unpack, set and get with n >= 1 and
\* offset + n <= count returns, its loops run to their ends: a bulk pack has
\* consumed exactly n input values and a bulk unpack has produced exactly n
\* output values, in the per width functions (whose closing assertions
\* in == end and out == end hold) and in the generic loops alike
CallsRunToTheirEnd ==
  /\ call.op = "pack" =>
       /\ call.count >= 1 /\ call.offset + call.count <= count
       /\ call.consumed = call.count /\ call.asserted
       /\ PackedArray_pack_reference(call.before, heap, bitsPerItem, call.offset,
                                     call.in, call.count).consumed = call.count
  /\ call.op = "unpack" =>
       /\ call.count >= 1 /\ call.offset + call.count <= count
       /\ Len(call.out) = call.count /\ call.asserted
       /\ Len(call.outReference) = call.count
  /\ call.op = "set" => call.consumed = 1
  /\ call.op = "get" => Len(call.out) = 1

\* a pack of items of 9 bits that starts within a cycle of 32 items, runs
\* over a whole cycle and ends within the next one, all its values consumed
CallsRunToTheirEndWitness ==
  /\ call.op = "pack" /\ bitsPerItem = 9
  /\ call.offset % 32 # 0
  /\ call.count > 32
  /\ (call.offset + call.count) % 32 # 0
  /\ call.consumed = call.count

\* the buffer cells that hold at least one bit of the items of the call
CellsOfCall == (FirstBit \div 32) .. ((EndBit - 1) \div 32)

\* C21: for n >= 1 and offset + n <= count, PackedArray_pack and
\* PackedArray_unpack, per width and generic, read and write only buffer
\* cells that hold a bit of a requested item, and so no cell at or past
\* bufferSize, also when the request ends with the buffer
BulkCallsStayInside ==
  call.op \in {"pack", "unpack"} =>
    /\ call.touched \subseteq CellsOfCall
    /\ call.touchedReference \subseteq CellsOfCall
    /\ CellsOfCall \subseteq 0 .. BufferSizeOf(bitsPerItem, count) - 1

\* an unpack of items of 32 bits up to the last item of the array, which
\* reads every cell of the request up to the last cell of the buffer
BulkCallsStayInsideWitness ==
  /\ call.op = "unpack" /\ bitsPerItem = 32
  /\ call.count > 1
  /\ call.offset + call.count = count
  /\ call.touched = CellsOfCall
  /\ (BufferSizeOf(bitsPerItem, count) - 1) \in call.touched

\* C22: with o = offset mod 32 and n >= 32 - o, the computations
\* cycles = (n + o) / 32 and remaining = n - (32 * cycles - o) do not wrap or
\* overflow for any request with offset + n within the count of the array,
\* the loop has 32 * cycles - o items to process, and remaining is
\* (n + o) mod 32, below 32
BatchArithmeticExact ==
  call.op = "batch" =>
    /\ ~call.overflow /\ ~call.trapped
    /\ call.remaining = And(ToU32(Add64(call.count, ToBits(call.offset))), MaskOf(5))
    /\ Add64(call.done, call.remaining) = call.count

\* C22, the requests below 2^31 items: nothing overflows, and remaining is
\* (n + o) mod 32
BatchArithmeticSmall ==
  (call.op = "batch" /\ \A b \in Add64(call.count, ToBits(call.offset)) : b < 31) =>
    /\ ~call.overflow /\ ~call.trapped
    /\ call.remaining = And(ToU32(Add64(call.count, ToBits(call.offset))), MaskOf(5))
    /\ Add64(call.done, call.remaining) = call.count

\* C22, the loop itself: entered at step o with n >= 32 - o, the whole-cycle
\* loop of __PackedArray_pack_<B> consumes 32 * cycles - o values and ends
\* on a cell boundary, its accumulator 0 and every cell before written
BatchEndsOnBoundary ==
  (call.op = "pack" /\ call.count >= 32 - (call.offset % 32)) =>
    LET o == call.offset % 32
        r == BatchCounts(ToBits(call.count), o, "wrap")
        out0 == CellOf(call.offset, bitsPerItem)
        s1 == PackCycles([ case |-> o, n |-> (call.count + o) \div 32, out |-> out0,
                           packed |-> PackStart(call.before, heap, out0,
                                                StartBitOf(call.offset, bitsPerItem)),
                           next |-> 1, buf |-> call.before, touched |-> {out0} ],
                         heap, bitsPerItem, call.in)
    IN  /\ ToBits(s1.next - 1) = r.done
        /\ s1.next - 1 = 32 * ((call.count + o) \div 32) - o
        /\ ((call.offset + s1.next - 1) * bitsPerItem) % 32 = 0
        /\ s1.out = ((call.offset + s1.next - 1) * bitsPerItem) \div 32
        /\ s1.packed = {}
        /\ ToBits(call.count - (s1.next - 1)) = r.count
        /\ call.count - (s1.next - 1) = (call.count + o) % 32

\* C23: for every width and every item of a call, the constants of step
\* i = offset mod 32, START_BIT = (i * B) mod 32 and BITS_AVAILABLE =
\* 32 - START_BIT, are the run time cursor (offset * B) mod 32 of the item
\* and its complement, and step 31 ends on a cell boundary, so that step 0
\* after it starts at bit 0 of the next cell
StepsResume ==
  call.op \in {"pack", "unpack", "set", "get"} =>
    /\ \A j \in 0 .. call.count - 1 :
         LET i == (call.offset + j) % 32
         IN  /\ PACKEDARRAY_IMPL_START_BIT(i, bitsPerItem)
                  = StartBitOf(call.offset + j, bitsPerItem)
             /\ PACKEDARRAY_IMPL_START_BIT(i, bitsPerItem)
                  = ((call.offset + j) * bitsPerItem) % 32
             /\ PACKEDARRAY_IMPL_BITS_AVAILABLE(i, bitsPerItem)
                  = 32 - StartBitOf(call.offset + j, bitsPerItem)
    /\ (PACKEDARRAY_IMPL_START_BIT(31, bitsPerItem) + bitsPerItem) % 32 = 0
    /\ PACKEDARRAY_IMPL_START_BIT(0, bitsPerItem) = 0
    /\ StartBitOf(32 * ((call.offset \div 32) + 1), bitsPerItem) = 0

\* an unpack of items of 9 bits entered at step 31, at bit 23 of its cell,
\* that goes on into step 0 and through a whole cycle
StepsResumeWitness ==
  /\ call.op = "unpack" /\ bitsPerItem = 9
  /\ call.offset = 31 /\ call.count > 32
  /\ PACKEDARRAY_IMPL_START_BIT(call.offset % 32, bitsPerItem) = 23
  /\ StartBitOf(call.offset, bitsPerItem) = 23
  /\ Len(call.out) = call.count

\* the items left to the tail switch of a bulk call, and the step it is
\* entered at
TailCount ==
  IF call.count >= 32 - (call.offset % 32)
  THEN (call.count + (call.offset % 32)) % 32
  ELSE call.count

TailStep == IF call.count >= 32 - (call.offset % 32) THEN 0 ELSE call.offset % 32

\* C24: for every valid request with n >= 1 the tail switch of the per
\* width functions stops when the requested count is exhausted: it is
\* entered with fewer items than steps are left up to step 31, takes not
\* one item more, and PACKEDARRAY_ASSERT(in == end) in pack and
\* PACKEDARRAY_ASSERT(out == end) in unpack hold
TailStopsAtEnd ==
  call.op \in {"pack", "unpack"} =>
    /\ call.asserted
    /\ TailStep + TailCount <= 32
    /\ call.op = "pack" => call.consumed = call.count
    /\ call.op = "unpack" => Len(call.out) = call.count

\* a pack from step 31 over a whole cycle that leaves one item to the tail
\* switch, which takes it at step 0 and stops
TailStopsAtEndWitness ==
  /\ call.op = "pack" /\ bitsPerItem = 17
  /\ call.offset % 32 = 31 /\ call.count > 32
  /\ TailCount = 1 /\ TailStep = 0
  /\ call.asserted /\ call.consumed = call.count
  /\ call.offset + call.count < count

\* the words of the buffer that hold item call.offset: word
\* floor(i * B / 32), and the next one when B > 32 - ((i * B) mod 32)
WordsOfItem ==
  LET w == (call.offset * bitsPerItem) \div 32
  IN  IF bitsPerItem > 32 - ((call.offset * bitsPerItem) % 32)
      THEN {w, w + 1} ELSE {w}

\* C25: PackedArray_set writes, and PackedArray_get reads, word
\* floor(i * B / 32), and word floor(i * B / 32) + 1 exactly when the item
\* straddles (B > 32 - ((i * B) mod 32)); no other word is accessed or
\* changed, and for an item of the array both words are inside the buffer
ItemCallsTouchItsWords ==
  call.op \in {"set", "get"} =>
    /\ call.touched = WordsOfItem
    /\ WordsOfItem \subseteq 0 .. BufferSizeOf(bitsPerItem, count) - 1
    /\ \A w \in DOMAIN buffer : w \notin WordsOfItem => buffer[w] = call.before[w]

\* a set of the last item of an array, which spans the last 2 words of the
\* buffer and changes both
ItemCallsTouchItsWordsWitness ==
  /\ call.op = "set" /\ call.offset = count - 1
  /\ Cardinality(WordsOfItem) = 2
  /\ call.touched = WordsOfItem
  /\ BufferSizeOf(bitsPerItem, count) - 1 \in WordsOfItem
  /\ \A w \in WordsOfItem : buffer[w] # call.before[w]

\* C26: after a PackedArray_create(bitsPerItem, count) that succeeds, count
\* being at least 1, the last word of the buffer (index bufferSize - 1) is
\* 0, and with it the padding bits beyond the last item
LastWordZeroAtCreation ==
  (call.op = "create" /\ call.a = "block" /\ call.count >= 1) =>
    /\ "buffer" \in call.writes
    /\ DOMAIN buffer = 0 .. BufferSizeOf(bitsPerItem, count) - 1
    /\ buffer[BufferSizeOf(bitsPerItem, count) - 1] = {}
    /\ reference[BufferSizeOf(bitsPerItem, count) - 1] = {}

\* an array of 66 items of 9 bits, just created: the last of its 19 words
\* is 0 and has padding bits, the word before it is what malloc left there
LastWordZeroAtCreationWitness ==
  /\ call.op = "create" /\ call.a = "block"
  /\ bitsPerItem = 9 /\ count = MaxCount
  /\ (bitsPerItem * count) % 32 # 0
  /\ buffer[BufferSizeOf(bitsPerItem, count) - 1] = {}
  /\ buffer[BufferSizeOf(bitsPerItem, count) - 2] # {}

\* x < y for two uint64_t
Below(x, y) ==
  \E b \in y \ x : \A c \in Bit64 : c > b => (c \in x <=> c \in y)

\* C27: PackedArray_create stores only inside the block it allocated: for
\* every width 1..32 and every 32 bit count, 0 included, the index of the
\* cell it sets to 0, ceil(bitsPerItem * count / 32) - 1 on a uint64_t, is
\* below the number of buffer cells
CreateStoresInsideBlock ==
  call.op = "bufferSize" =>
    /\ Below(call.zeroed, BufferCells(call.bitsPerItem, call.count))
    /\ Below(call.zeroed, call.allocated)

\* C27, an array of at least one item on a build with a 64 bit size_t: the
\* cell set to 0 is the last one of the buffer allocated
CreateStoresInsideBlockNonEmpty ==
  (call.op = "bufferSize" /\ call.count # {} /\ call.sizeT = 64) =>
    /\ Below(call.zeroed, call.allocated)
    /\ Add64(call.zeroed, {0}) = call.allocated

\* C27, no item: the index of the cell set to 0 is 2^64 - 1
CreateOfNoneStoresBeforeBuffer ==
  (call.op = "bufferSize" /\ call.count = {}) =>
    /\ call.zeroed = Bit64
    /\ call.allocated = {}

\* C28: the bit cursor is exact for every 32 bit offset and every width
\* 1..32: the cell is floor(offset * B / 32) and the start bit is
\* (offset * B) mod 32, the product not wrapping at 32 bits, and the mask
\* is 2^B - 1, 0xFFFFFFFF for B = 32. With offset = h * 2^16 + l the cell
\* is B * h * 2^11 + floor(B * l / 32), compared in two parts below 2^22;
\* for the small offsets the cell and the start bit are CellOf and StartBitOf
CursorIsExact ==
  call.op = "cursor" =>
    LET B == call.bitsPerItem
        low == (B * Value(call.offset, 0, 15)) \div 32
    IN  /\ Value(call.cell, 11, 63) = B * Value(call.offset, 16, 31) + (low \div 2048)
        /\ Value(call.cell, 0, 10) = low % 2048
        /\ Value(call.startBit, 0, 4) = (B * Value(call.offset, 0, 15)) % 32
        /\ call.mask = 0 .. B - 1
        /\ call.implMask = 0 .. B - 1
        /\ B = 32 => call.mask = Bit
        /\ call.offset \subseteq 0 .. 6 =>
             /\ Value(call.cell, 0, 15) = CellOf(Value(call.offset, 0, 6), B)
             /\ Value(call.startBit, 0, 4) = StartBitOf(Value(call.offset, 0, 6), B)

\* item 2^32 - 1 of an array of 31 bit items: the product passes 2^32, the
\* cell is 31 * 2^27 - 1 and the start bit is 1
CursorIsExactWitness ==
  /\ call.op = "cursor"
  /\ call.offset = Bit /\ call.bitsPerItem = 31
  /\ call.cell = (0 .. 31) \ {27}
  /\ call.startBit = {0}
  /\ call.mask = 0 .. 30

\* C29: every shift of a 32 bit operand in set, get, the generic loops and
\* the cases of the per width functions is by 0..31: the shifts by
\* bitsAvailable and by 32 - startBit, which only an item spanning 2 cells
\* executes, run with startBit in 1..31, and the shift by startBit with
\* startBit at most 31
ShiftsBelow32 ==
  call.op \in {"set", "get", "pack_reference", "unpack_reference", "cases"} =>
    \A sh \in call.shifts :
      /\ sh[2] \in 0 .. 31
      /\ sh[1] \in {"bitsAvailable", "32 - startBit"} => sh[3] \in 1 .. 31
      /\ sh[1] = "startBit" => sh[3] <= 31

\* an iteration of the generic pack loop for an item of 31 bits that spans 2
\* cells: it shifts by startBit, bitsAvailable and 32 - startBit, all in 1..31
ShiftsBelow32Witness ==
  /\ call.op = "pack_reference" /\ bitsPerItem = 31
  /\ call.taken = "straddles"
  /\ call.shifts = { << "startBit", 31, 31 >>, << "bitsAvailable", 1, 31 >>,
                     << "32 - startBit", 1, 31 >> }

\* C30: at the top of every iteration of the generic pack and unpack loops
\* 0 <= startBit <= 32, bitsAvailable = 32 - startBit and startBit is
\* congruent modulo 32 to the bit position of the next item; an iteration
\* takes one of three actions, fits iff B <= bitsAvailable, exactly fills
\* iff bitsAvailable = 0, straddles iff 0 < bitsAvailable < B, and after
\* straddles startBit is (startBit + B) mod 32
LoopCursorKept ==
  call.op \in {"pack_reference", "unpack_reference"} =>
    LET s == call.s
        done == call.count - s.count
    IN  /\ 0 <= s.startBit /\ s.startBit <= 32
        /\ s.bitsAvailable = 32 - s.startBit
        /\ (s.startBit - (call.offset + done) * bitsPerItem) % 32 = 0
        /\ (done > 0 /\ status = "looping") =>
             /\ call.taken \in {"fits", "fills", "straddles"}
             /\ call.taken = "fits" <=> bitsPerItem <= call.bitsAvailable
             /\ call.taken = "fills" <=> call.bitsAvailable = 0
             /\ call.taken = "straddles"
                  <=> (0 < call.bitsAvailable /\ call.bitsAvailable < bitsPerItem)
             /\ call.taken = "fits" => s.startBit = call.startBit + bitsPerItem
             /\ call.taken = "fills" => s.startBit = bitsPerItem
             /\ call.taken = "straddles"
                  => s.startBit = (call.startBit + bitsPerItem) % 32

\* the generic unpack loop after an item that ended its cell and one that
\* exactly fills the next: 2 items of 16 bits from item 1
LoopCursorKeptWitness ==
  /\ call.op = "unpack_reference" /\ bitsPerItem = 16
  /\ call.offset = 1 /\ call.count = 3 /\ call.s.count = 1
  /\ call.taken = "fills" /\ call.startBit = 32 /\ call.bitsAvailable = 0
  /\ call.s.startBit = 16
  /\ Len(call.s.out) = 2

====
